---- MODULE Spec2Model ----
(***************************************************************************)
(* pi-webserver: the shared HTTP server of src/src/server.ts (the current  *)
(* revision, lines 225-561): mount registry, Basic and Bearer auth gates,  *)
(* longest-prefix router, request dispatch and server lifecycle.           *)
(*                                                                         *)
(* Strings are sequences of one-character strings, so that startsWith,     *)
(* slice, indexOf and the trailing-slash regexp are computed character by  *)
(* character.  A JavaScript `T | null` value is the empty tuple (null) or  *)
(* a one-element tuple holding the value.                                  *)
(*                                                                         *)
(* `listeners` holds the ids of the listening sockets that are open and    *)
(* `conns` the connections accepted by them: what http.createServer,       *)
(* listen, close and closeAllConnections act on.                           *)
(***************************************************************************)
EXTENDS Integers, Sequences, FiniteSets, TLC

VARIABLES server, serverPort, mounts, authCredentials, apiToken, apiReadToken, last,
          listeners, conns

vars == <<server, serverPort, mounts, authCredentials, apiToken, apiReadToken, last,
          listeners, conns>>

\* The model keeps at most MaxConns connections on record at once.
MaxConns == 2

\* ---------------------------------------------------------------- values

Null == <<>>
Some(x) == <<x>>
IsNull(o) == o = <<>>
Val(o) == o[1]

\* JavaScript truthiness of a `string | null`: null and "" are falsy.
Truthy(o) == ~IsNull(o) /\ Val(o) # <<>>

\* ---------------------------------------------------------------- strings

StartsWith(s, p) == Len(p) <= Len(s) /\ SubSeq(s, 1, Len(p)) = p

\* s.slice(n)
Slice(s, n) == SubSeq(s, n + 1, Len(s))

\* s.indexOf(c), 0-based, -1 when absent
IndexOf(s, c) ==
  IF \E i \in 1..Len(s) : s[i] = c
  THEN (CHOOSE i \in 1..Len(s) : s[i] = c /\ \A j \in 1..(i - 1) : s[j] # c) - 1
  ELSE -1

\* s.replace(/\/+$/, "")
RECURSIVE StripTrailingSlashes(_)
StripTrailingSlashes(s) ==
  IF Len(s) > 0 /\ s[Len(s)] = "/"
  THEN StripTrailingSlashes(SubSeq(s, 1, Len(s) - 1))
  ELSE s

\* the two normalising lines shared by mount and mountApi
NormalizePrefix(p) ==
  LET stripped == StripTrailingSlashes(p)
  IN  IF StartsWith(stripped, <<"/">>) THEN stripped ELSE <<"/">> \o stripped

ApiRoot == <<"/", "a", "p", "i">>
ApiRootSlash == <<"/", "a", "p", "i", "/">>
DashboardPath == <<"/">>
MountsPath == <<"/", "_", "a", "p", "i", "/", "m", "o", "u", "n", "t", "s">>
DefaultUsername == <<"p", "i">>

\* ---------------------------------------------------------------- registry

\* `mounts` is a Map<string, MountConfig>: a sequence of entries in insertion
\* order, at most one per name.
MapHas(m, name) == \E i \in 1..Len(m) : m[i].name = name

MapIndex(m, name) == CHOOSE i \in 1..Len(m) : m[i].name = name

MapGet(m, name) == m[MapIndex(m, name)]

\* A registry that appends on every set and never replaces.
MapSet_Appends(m, entry) == Append(m, entry)

\* Map.prototype.set: an existing key keeps its position, a new key goes last.
MapSet(m, entry) ==
  IF MapHas(m, entry.name)
  THEN [m EXCEPT ![MapIndex(m, entry.name)] = entry]
  ELSE Append(m, entry)

\* A delete that also drops every entry inserted after the deleted one.
MapDelete_DropsTail(m, name) ==
  IF \E i \in 1..Len(m) : m[i].name = name
  THEN SubSeq(m, 1, (CHOOSE i \in 1..Len(m) : m[i].name = name) - 1)
  ELSE m

\* Map.prototype.delete
MapDelete(m, name) ==
  IF MapHas(m, name)
  THEN LET k == MapIndex(m, name)
       IN  SubSeq(m, 1, k - 1) \o SubSeq(m, k + 1, Len(m))
  ELSE m

\* mount(config): the registry after the call
mount(m, config) ==
  MapSet(m, [config EXCEPT !.prefix = NormalizePrefix(config.prefix)])

\* mountApi(config): the registry after the call
mountApi(m, config) ==
  mount(m, [config EXCEPT !.prefix = ApiRoot \o NormalizePrefix(config.prefix)])

\* getMounts(): the entries without their handlers, in iteration order
getMounts(m) ==
  [i \in 1..Len(m) |-> [name |-> m[i].name, prefix |-> m[i].prefix,
                        skipAuth |-> m[i].skipAuth]]

\* getApiMounts(): getMounts() filtered by prefix.startsWith("/api")
getApiMounts(m) ==
  SelectSeq(getMounts(m), LAMBDA info : StartsWith(info.prefix, ApiRoot))

\* ---------------------------------------------------------------- base64

\* The byte of each character the model's credentials use (ASCII).
Code ==
  [c \in {":", "a", "b", "i", "p", "s", "t", "u"} |->
     CASE c = ":" -> 58 [] c = "a" -> 97 [] c = "b" -> 98 [] c = "i" -> 105
       [] c = "p" -> 112 [] c = "s" -> 115 [] c = "t" -> 116 [] c = "u" -> 117]

Bytes(s) == [i \in 1..Len(s) |-> Code[s[i]]]

\* Buffer.toString() on ASCII bytes; a byte outside the model's alphabet becomes
\* "?", a character no credential of the model holds.
ToChars(bytes) ==
  [i \in 1..Len(bytes) |->
     IF \E c \in DOMAIN Code : Code[c] = bytes[i]
     THEN CHOOSE c \in DOMAIN Code : Code[c] = bytes[i]
     ELSE "?"]

\* A base64 text is a sequence of symbols: 0..63 are the alphabet's values and
\* Pad is "=".
Pad == 64

\* Standard base64 of a byte sequence, with padding (what a client sends).
RECURSIVE Base64Encode(_)
Base64Encode(b) ==
  IF Len(b) = 0 THEN <<>>
  ELSE IF Len(b) = 1 THEN <<b[1] \div 4, (b[1] % 4) * 16, Pad, Pad>>
  ELSE IF Len(b) = 2
       THEN <<b[1] \div 4, (b[1] % 4) * 16 + b[2] \div 16, (b[2] % 16) * 4, Pad>>
  ELSE <<b[1] \div 4, (b[1] % 4) * 16 + b[2] \div 16,
         (b[2] % 16) * 4 + b[3] \div 64, b[3] % 64>>
       \o Base64Encode(SubSeq(b, 4, Len(b)))

\* The symbols before the first "=": the decoder stops there.
BeforePad(v) ==
  IF \E i \in 1..Len(v) : v[i] = Pad
  THEN SubSeq(v, 1, (CHOOSE i \in 1..Len(v) :
                       v[i] = Pad /\ \A j \in 1..(i - 1) : v[j] # Pad) - 1)
  ELSE v

RECURSIVE DecodeSextets(_)
DecodeSextets(v) ==
  IF Len(v) < 2 THEN <<>>
  ELSE IF Len(v) = 2 THEN <<v[1] * 4 + v[2] \div 16>>
  ELSE IF Len(v) = 3
       THEN <<v[1] * 4 + v[2] \div 16, (v[2] % 16) * 16 + v[3] \div 4>>
  ELSE <<v[1] * 4 + v[2] \div 16, (v[2] % 16) * 16 + v[3] \div 4,
         (v[3] % 4) * 64 + v[4]>>
       \o DecodeSextets(SubSeq(v, 5, Len(v)))

\* Buffer.from(text, "base64"): lenient, padding optional
Base64Decode(v) == DecodeSextets(BeforePad(v))

\* ---------------------------------------------------------------- requests

\* The Authorization header.  scheme "none": no header; "Basic": the header
\* starts with "Basic " and b64 is header.slice(6); "Bearer": it starts with
\* "Bearer " and token is header.slice(7); "Other": any other header value.
NoHeader == [scheme |-> "none", b64 |-> <<>>, token |-> <<>>]
BasicHeader(v) == [scheme |-> "Basic", b64 |-> v, token |-> <<>>]
BearerHeader(t) == [scheme |-> "Bearer", b64 |-> <<>>, token |-> t]
OtherHeader == [scheme |-> "Other", b64 |-> <<>>, token |-> <<>>]

\* The header a client builds from a username and a password.
BasicFor(u, p) == BasicHeader(Base64Encode(Bytes(u \o <<":">> \o p)))

\* ---------------------------------------------------------------- auth gates

\* tokensEqual(a, b): false when either is falsy, else equal length and bytes
tokensEqual(a, b) ==
  IF ~Truthy(a) \/ ~Truthy(b) THEN FALSE
  ELSE IF Len(Val(a)) # Len(Val(b)) THEN FALSE
  ELSE \A i \in 1..Len(Val(a)) : Val(a)[i] = Val(b)[i]

\* checkApiAuth(req, res): 0 when the request may go on, else the status written
checkApiAuth(method, header, full, read) ==
  IF ~Truthy(full) /\ ~Truthy(read) THEN 0
  ELSE LET bearer == IF header.scheme = "Bearer" THEN Some(header.token) ELSE Null
           isRead == method \in {"GET", "HEAD"}
       IN  IF tokensEqual(bearer, full) THEN 0
           ELSE IF tokensEqual(bearer, read)
                THEN (IF isRead THEN 0 ELSE 403)
                ELSE 401

\* s.lastIndexOf(c), 0-based, -1 when absent
LastIndexOf(s, c) ==
  IF \E i \in 1..Len(s) : s[i] = c
  THEN (CHOOSE i \in 1..Len(s) : s[i] = c /\ \A j \in (i + 1)..Len(s) : s[j] # c) - 1
  ELSE -1

\* A session gate that splits the decoded text at its last colon.
checkAuth_LastColon(header, creds) ==
  IF IsNull(creds) THEN TRUE
  ELSE IF header.scheme = "Basic"
       THEN LET decoded == ToChars(Base64Decode(header.b64))
                colon == LastIndexOf(decoded, ":")
            IN  colon # -1
                /\ SubSeq(decoded, 1, colon) = Val(creds).username
                /\ Slice(decoded, colon + 1) = Val(creds).password
       ELSE FALSE

\* checkAuth(req, res): TRUE when the request may go on, FALSE when 401 is written
checkAuth(header, creds) ==
  IF IsNull(creds) THEN TRUE
  ELSE IF header.scheme = "Basic"
       THEN LET decoded == ToChars(Base64Decode(header.b64))
                colon == IndexOf(decoded, ":")
            IN  colon # -1
                /\ SubSeq(decoded, 1, colon) = Val(creds).username
                /\ Slice(decoded, colon + 1) = Val(creds).password
       ELSE FALSE

\* ---------------------------------------------------------------- router

\* A namespace test by the leading characters "/api" alone.
IsApiPath_ByLetters(pathname) == StartsWith(pathname, ApiRoot)

\* pathname === "/api" || pathname.startsWith("/api/")
IsApiPath(pathname) == pathname = ApiRoot \/ StartsWith(pathname, ApiRootSlash)

Matches(pathname, prefix) ==
  pathname = prefix \/ StartsWith(pathname, prefix \o <<"/">>)

\* The routing loop from entry i on, with the best match so far.
RECURSIVE RouteFrom(_, _, _, _)
RouteFrom(m, pathname, i, best) ==
  IF i > Len(m) THEN best
  ELSE RouteFrom(m, pathname, i + 1,
         IF Matches(pathname, m[i].prefix)
            /\ (IsNull(best) \/ Len(m[i].prefix) > Len(Val(best).prefix))
         THEN Some(m[i]) ELSE best)

\* A router that takes the first matching entry, whatever its length.
BestMatch_FirstMatch(m, pathname) ==
  IF \E i \in 1..Len(m) : Matches(pathname, m[i].prefix)
  THEN Some(m[CHOOSE i \in 1..Len(m) :
                 /\ Matches(pathname, m[i].prefix)
                 /\ \A j \in 1..(i - 1) : ~Matches(pathname, m[j].prefix)])
  ELSE Null

\* A router that keeps the latest of the longest matches (>= in place of >).
BestMatch_LastWins(m, pathname) ==
  LET matching == { i \in 1..Len(m) : Matches(pathname, m[i].prefix) }
      longest == { i \in matching :
                     \A j \in matching : Len(m[j].prefix) <= Len(m[i].prefix) }
  IN  IF matching = {} THEN Null
      ELSE Some(m[CHOOSE i \in longest : \A j \in longest : j <= i])

BestMatch(m, pathname) == RouteFrom(m, pathname, 1, Null)

\* A residual path that also drops the slash after the prefix.
SubPath_DropsSlash(pathname, prefix) ==
  LET rest == Slice(pathname, Len(prefix) + 1)
  IN  IF rest = <<>> THEN <<"/">> ELSE rest

\* pathname.slice(prefix.length) || "/"
SubPath(pathname, prefix) ==
  LET rest == Slice(pathname, Len(prefix))
  IN  IF rest = <<>> THEN <<"/">> ELSE rest

\* ---------------------------------------------------------------- dispatch

NoBody == [kind |-> "none", mounts |-> <<>>, tokenAuth |-> FALSE, readTokenAuth |-> FALSE]

\* What the request callback has done when it returns or reaches the handler
\* call.  status 0: the dispatcher wrote nothing and called the handler.
Response(method, pathname, header, status, route, session, token, routed, match, body) ==
  [op |-> "request", method |-> method, pathname |-> pathname, header |-> header,
   status |-> status, route |-> route,
   sessionGate |-> session, tokenGate |-> token, routed |-> routed,
   match |-> match,
   invoked |-> (route = "handler"),
   subPath |-> IF route = "handler" THEN SubPath(pathname, Val(match).prefix) ELSE <<>>,
   wwwAuthenticate |-> (route = "session401"),
   body |-> body]

\* The `try` block of the request callback.
Routes(method, pathname, header, session) ==
  LET isApiPath == IsApiPath(pathname)
      gate == checkApiAuth(method, header, apiToken, apiReadToken)
      denied == IF gate = 401 THEN "token401" ELSE "token403"
      bestMatch == BestMatch(mounts, pathname)
  IN  IF pathname = ApiRoot \/ pathname = ApiRootSlash
      THEN IF gate # 0
           THEN Response(method, pathname, header, gate, denied, session, TRUE, FALSE, Null, NoBody)
           ELSE Response(method, pathname, header, 200, "apiListing", session, TRUE, FALSE, Null,
                         [kind |-> "apiListing", mounts |-> getApiMounts(mounts),
                          tokenAuth |-> ~IsNull(apiToken),
                          readTokenAuth |-> ~IsNull(apiReadToken)])
      ELSE IF pathname = DashboardPath \/ pathname = <<>>
      THEN Response(method, pathname, header, 200, "dashboard", session, FALSE, FALSE, Null,
                    [NoBody EXCEPT !.kind = "dashboard"])
      ELSE IF pathname = MountsPath
      THEN Response(method, pathname, header, 200, "mounts", session, FALSE, FALSE, Null,
                    [NoBody EXCEPT !.kind = "mounts", !.mounts = getMounts(mounts)])
      ELSE IF ~IsNull(bestMatch)
      THEN IF isApiPath /\ ~Val(bestMatch).skipAuth
           THEN IF gate # 0
                THEN Response(method, pathname, header, gate, denied, session, TRUE, TRUE,
                              bestMatch, NoBody)
                ELSE Response(method, pathname, header, 0, "handler", session, TRUE, TRUE,
                              bestMatch, NoBody)
           ELSE Response(method, pathname, header, 0, "handler", session, FALSE, TRUE,
                         bestMatch, NoBody)
      ELSE IF isApiPath /\ gate # 0
      THEN Response(method, pathname, header, gate, denied, session, TRUE, TRUE, Null, NoBody)
      ELSE Response(method, pathname, header, 404, "notFound", session, isApiPath, TRUE, Null,
                    [NoBody EXCEPT !.kind = "error"])

\* A request callback that applies the auth gates before the preflight answer.
Dispatch_GateBeforePreflight(method, pathname, header) ==
  IF ~IsApiPath(pathname) /\ ~checkAuth(header, authCredentials)
  THEN Response(method, pathname, header, 401, "session401", TRUE, FALSE, FALSE, Null, NoBody)
  ELSE IF IsApiPath(pathname)
          /\ checkApiAuth(method, header, apiToken, apiReadToken) # 0
  THEN Response(method, pathname, header,
                checkApiAuth(method, header, apiToken, apiReadToken), "token401",
                FALSE, TRUE, FALSE, Null, NoBody)
  ELSE IF method = "OPTIONS"
  THEN Response(method, pathname, header, 204, "preflight", FALSE, FALSE, FALSE, Null, NoBody)
  ELSE Routes(method, pathname, header, ~IsApiPath(pathname))

\* A request callback that runs the router before the fixed routes.
Dispatch_MountsFirst(method, pathname, header) ==
  IF method = "OPTIONS"
  THEN Response(method, pathname, header, 204, "preflight", FALSE, FALSE, FALSE, Null, NoBody)
  ELSE IF ~IsApiPath(pathname) /\ ~checkAuth(header, authCredentials)
  THEN Response(method, pathname, header, 401, "session401", TRUE, FALSE, FALSE, Null, NoBody)
  ELSE IF ~IsNull(BestMatch(mounts, pathname)) /\ ~IsApiPath(pathname)
  THEN Response(method, pathname, header, 0, "handler", TRUE, FALSE, TRUE,
                BestMatch(mounts, pathname), NoBody)
  ELSE IF ~IsNull(BestMatch(mounts, pathname))
          /\ checkApiAuth(method, header, apiToken, apiReadToken) = 0
  THEN Response(method, pathname, header, 0, "handler", FALSE, TRUE, TRUE,
                BestMatch(mounts, pathname), NoBody)
  ELSE Routes(method, pathname, header, ~IsApiPath(pathname))

\* The request callback, from its first line to its return or the handler call.
Dispatch(method, pathname, header) ==
  IF method = "OPTIONS"
  THEN Response(method, pathname, header, 204, "preflight", FALSE, FALSE, FALSE, Null, NoBody)
  ELSE IF ~IsApiPath(pathname)
       THEN IF ~checkAuth(header, authCredentials)
            THEN Response(method, pathname, header, 401, "session401", TRUE, FALSE, FALSE,
                          Null, NoBody)
            ELSE Routes(method, pathname, header, TRUE)
       ELSE Routes(method, pathname, header, FALSE)

\* ---------------------------------------------------------------- state

Init ==
  /\ server = Null
  /\ serverPort = Null
  /\ mounts = <<>>
  /\ authCredentials = Null
  /\ apiToken = Null
  /\ apiReadToken = Null
  /\ last = [op |-> "init"]
  /\ listeners = {}
  /\ conns = <<>>

\* ---------------------------------------------------------------- operations

\* mount(config).  last.old is the prefix the name had before the call.
Mount(config) ==
  /\ mounts' = mount(mounts, config)
  /\ last' = [op |-> "mount", name |-> config.name, config |-> config,
              old |-> IF MapHas(mounts, config.name)
                      THEN Some(MapGet(mounts, config.name).prefix) ELSE Null]
  /\ UNCHANGED <<listeners, conns, server, serverPort, authCredentials, apiToken, apiReadToken>>

\* mountApi(config)
MountApi(config) ==
  /\ mounts' = mountApi(mounts, config)
  /\ last' = [op |-> "mountApi", name |-> config.name, config |-> config,
              old |-> IF MapHas(mounts, config.name)
                      THEN Some(MapGet(mounts, config.name).prefix) ELSE Null]
  /\ UNCHANGED <<listeners, conns, server, serverPort, authCredentials, apiToken, apiReadToken>>

\* unmount(name), with its return value
Unmount(name) ==
  /\ mounts' = MapDelete(mounts, name)
  /\ last' = [op |-> "unmount", name |-> name, ret |-> MapHas(mounts, name)]
  /\ UNCHANGED <<listeners, conns, server, serverPort, authCredentials, apiToken, apiReadToken>>

\* unmountApi(name): unmount(name)
UnmountApi(name) ==
  /\ mounts' = MapDelete(mounts, name)
  /\ last' = [op |-> "unmountApi", name |-> name, ret |-> MapHas(mounts, name)]
  /\ UNCHANGED <<listeners, conns, server, serverPort, authCredentials, apiToken, apiReadToken>>

\* A setAuth that stores credentials but never clears them.
SetAuth_KeepsOnNull(config) ==
  /\ authCredentials' =
       IF IsNull(config) THEN authCredentials
       ELSE Some([username |-> IF IsNull(Val(config).username) THEN DefaultUsername
                               ELSE Val(Val(config).username),
                  password |-> Val(config).password])
  /\ last' = [op |-> "setAuth", config |-> config]
  /\ UNCHANGED <<listeners, conns, server, serverPort, mounts, apiToken, apiReadToken>>

\* setAuth(config): config is null or {username?, password}
SetAuth(config) ==
  /\ authCredentials' =
       IF IsNull(config) THEN Null
       ELSE Some([username |-> IF IsNull(Val(config).username) THEN DefaultUsername
                               ELSE Val(Val(config).username),
                  password |-> Val(config).password])
  /\ last' = [op |-> "setAuth", config |-> config]
  /\ UNCHANGED <<listeners, conns, server, serverPort, mounts, apiToken, apiReadToken>>

\* setApiToken(token)
SetApiToken(token) ==
  /\ apiToken' = token
  /\ last' = [op |-> "setApiToken", token |-> token]
  /\ UNCHANGED <<listeners, conns, server, serverPort, mounts, authCredentials, apiReadToken>>

\* setApiReadToken(token)
SetApiReadToken(token) ==
  /\ apiReadToken' = token
  /\ last' = [op |-> "setApiReadToken", token |-> token]
  /\ UNCHANGED <<listeners, conns, server, serverPort, mounts, authCredentials, apiToken>>

\* ---------------------------------------------------------------- lifecycle

\* A connection is [listener, open, req, headersSent]: the listening socket
\* that accepted it, whether its socket is open, the request whose handler is
\* pending on it (null when idle) and res.headersSent of that request.
Connection(id, req) ==
  [listener |-> id, open |-> TRUE, req |-> req, headersSent |-> FALSE]

\* The ids in use: open listening sockets and the listeners of the connections
\* still referred to.
UsedIds(l, c) == l \cup { c[i].listener : i \in 1..Len(c) }

\* The id of a newly created http.Server: the least id not in use.
FreshId(l, c) ==
  CHOOSE n \in 0..Cardinality(UsedIds(l, c)) :
    /\ n \notin UsedIds(l, c)
    /\ \A k \in 0..(n - 1) : k \in UsedIds(l, c)

\* A close that destroys only the connections without a pending request.
closeAllConnections_IdleOnly(c, id) ==
  SelectSeq(c, LAMBDA k : k.listener # id \/ ~IsNull(k.req))

\* server.closeAllConnections(): every connection of the listener is destroyed.
\* An idle one is gone; one whose handler is still pending stays on record,
\* closed, until the handler settles.
closeAllConnections(c, id) ==
  SelectSeq([i \in 1..Len(c) |->
               IF c[i].listener = id THEN [c[i] EXCEPT !.open = FALSE] ELSE c[i]],
            LAMBDA k : k.open \/ ~IsNull(k.req))

isRunning == ~IsNull(server)

getPort == serverPort

\* `http://localhost:${port}`
Url(port) == [host |-> "localhost", port |-> port]

\* getUrl(): serverPort ? url : null
getUrl == IF ~IsNull(serverPort) /\ Val(serverPort) # 0 THEN Some(Url(Val(serverPort))) ELSE Null

\* A stop() that leaves the recorded port in place.
stop_KeepsPort ==
  IF IsNull(server)
  THEN UNCHANGED <<server, serverPort, listeners, conns>>
  ELSE /\ conns' = closeAllConnections(conns, Val(server).id)
       /\ listeners' = listeners \ {Val(server).id}
       /\ server' = Null
       /\ UNCHANGED serverPort

\* stop(): what it does to the server, its listener and its connections
stop ==
  IF IsNull(server)
  THEN UNCHANGED <<server, serverPort, listeners, conns>>
  ELSE /\ conns' = closeAllConnections(conns, Val(server).id)
       /\ listeners' = listeners \ {Val(server).id}
       /\ server' = Null
       /\ serverPort' = Null

\* The ports listen accepts; for any other number it throws.
ValidPort(port) == port \in 0..65535

\* start(port): stop() when a server exists, then a new http.Server is created
\* and listens on port.  dashboard.html is part of the installed package and
\* the port is free.  For a number that is no port, listen throws after the new
\* server has been assigned: it is not listening and no port is recorded.
start(port) ==
  LET stoppedConns == IF IsNull(server) THEN conns
                      ELSE closeAllConnections(conns, Val(server).id)
      stoppedListeners == IF IsNull(server) THEN listeners
                          ELSE listeners \ {Val(server).id}
      id == FreshId(stoppedListeners, stoppedConns)
  IN  /\ server' = Some([port |-> port, id |-> id])
      /\ listeners' = IF ValidPort(port) THEN stoppedListeners \cup {id} ELSE stoppedListeners
      /\ conns' = stoppedConns
      /\ serverPort' = IF ValidPort(port) THEN Some(port) ELSE Null

\* A stop() that also empties the registry.
Stop_ClearsMounts ==
  /\ stop
  /\ last' = [op |-> "stop", ret |-> ~IsNull(server)]
  /\ mounts' = <<>>
  /\ UNCHANGED <<authCredentials, apiToken, apiReadToken>>

\* stop(), with its return value
Stop ==
  /\ stop
  /\ last' = [op |-> "stop", ret |-> ~IsNull(server)]
  /\ UNCHANGED <<mounts, authCredentials, apiToken, apiReadToken>>

\* start(port); last.url is the returned URL
Start(port) ==
  /\ start(port)
  /\ last' = [op |-> "start", port |-> port, restarted |-> ~IsNull(server),
              url |-> IF ValidPort(port) THEN Some(Url(port)) ELSE Null]
  /\ UNCHANGED <<mounts, authCredentials, apiToken, apiReadToken>>

\* A client connects to the listening server and keeps the connection open.
Connect ==
  /\ ~IsNull(server)
  /\ Len(conns) < MaxConns
  /\ conns' = Append(conns, Connection(Val(server).id, Null))
  /\ last' = [op |-> "connect"]
  /\ UNCHANGED <<listeners, server, serverPort, mounts, authCredentials, apiToken, apiReadToken>>

\* ---------------------------------------------------------------- handlers

\* What a mounted handler does when called is the handler's own code.  "h1" and
\* "h2" answer and return within the call; "hAsync" returns a promise that
\* settles later; "hThrow" throws within the call.
AsyncHandler == "hAsync"
ThrowingHandler == "hThrow"

\* What a handler throws or rejects with: an Error with a message, a value
\* without a message property (a thrown string), or null / undefined.
Failures ==
  { [kind |-> "Error", message |-> <<"b", "o", "o", "m">>],
    [kind |-> "value", message |-> <<>>],
    [kind |-> "nullish", message |-> <<>>] }

\* A catch block that answers 500 whether or not the headers were sent.
CatchOutcome_AlwaysWrites(resp, headersSent, err) ==
  [op |-> "handlerFailure", request |-> resp, error |-> err, headersSent |-> headersSent,
   status |-> 500,
   ended |-> err.kind # "nullish",
   body |-> IF err.kind = "nullish" THEN Null
            ELSE Some([error |-> IF err.kind = "Error" THEN Some(err.message) ELSE Null]),
   unhandled |-> err.kind = "nullish"]

\* The catch block of the request callback.  status is what the dispatcher
\* passed to writeHead (0: nothing), ended whether it reached the end of
\* res.end(...), body the JSON it sent ({error: err.message}; JSON.stringify
\* drops an undefined message), unhandled whether evaluating err.message threw
\* inside the catch block, which rejects the callback's own promise.
CatchOutcome(resp, headersSent, err) ==
  [op |-> "handlerFailure", request |-> resp, error |-> err, headersSent |-> headersSent,
   status |-> IF headersSent THEN 0 ELSE 500,
   ended |-> ~headersSent /\ err.kind # "nullish",
   body |-> IF headersSent \/ err.kind = "nullish" THEN Null
            ELSE Some([error |-> IF err.kind = "Error" THEN Some(err.message) ELSE Null]),
   unhandled |-> ~headersSent /\ err.kind = "nullish"]

\* The sequence without its i-th element.
RemoveAt(c, i) == SubSeq(c, 1, i - 1) \o SubSeq(c, i + 1, Len(c))

\* One request served by the listening server, on a connection of its own
\* (Connection: close), up to the return of the callback or to the await of a
\* pending handler.
Request(method, pathname, header) ==
  /\ ~IsNull(server)
  /\ \E resp \in {Dispatch(method, pathname, header)} :
       IF resp.invoked /\ Val(resp.match).handler = AsyncHandler
       THEN /\ Len(conns) < MaxConns
            /\ conns' = Append(conns, Connection(Val(server).id, Some(resp)))
            /\ last' = resp
       ELSE IF resp.invoked /\ Val(resp.match).handler = ThrowingHandler
       THEN /\ \E wrote \in BOOLEAN, err \in Failures :
                 last' = CatchOutcome(resp, wrote, err)
            /\ UNCHANGED conns
       ELSE /\ last' = resp
            /\ UNCHANGED conns
  /\ UNCHANGED <<listeners, server, serverPort, mounts, authCredentials, apiToken, apiReadToken>>

\* The pending handler of connection i begins its response (res.writeHead).
HandlerWrite(i) ==
  /\ i \in 1..Len(conns)
  /\ ~IsNull(conns[i].req) /\ ~conns[i].headersSent
  /\ conns' = [conns EXCEPT ![i].headersSent = TRUE]
  /\ last' = [op |-> "handlerWrite", request |-> Val(conns[i].req)]
  /\ UNCHANGED <<listeners, server, serverPort, mounts, authCredentials, apiToken, apiReadToken>>

\* A callback that looks the request up again in the registry and the
\* credentials of the moment the handler returns.
HandlerResolve_Rereads(i) ==
  /\ i \in 1..Len(conns)
  /\ ~IsNull(conns[i].req)
  /\ conns' = RemoveAt(conns, i)
  /\ last' = [op |-> "handlerReturn",
              request |-> Dispatch(Val(conns[i].req).method, Val(conns[i].req).pathname,
                                   Val(conns[i].req).header),
              headersSent |-> conns[i].headersSent]
  /\ UNCHANGED <<listeners, server, serverPort, mounts, authCredentials, apiToken, apiReadToken>>

\* The promise of the pending handler of connection i resolves: the callback
\* returns.
HandlerResolve(i) ==
  /\ i \in 1..Len(conns)
  /\ ~IsNull(conns[i].req)
  /\ conns' = RemoveAt(conns, i)
  /\ last' = [op |-> "handlerReturn", request |-> Val(conns[i].req),
              headersSent |-> conns[i].headersSent]
  /\ UNCHANGED <<listeners, server, serverPort, mounts, authCredentials, apiToken, apiReadToken>>

\* The promise of the pending handler of connection i rejects with err: the
\* await throws into the catch block.
HandlerReject(i, err) ==
  /\ i \in 1..Len(conns)
  /\ ~IsNull(conns[i].req)
  /\ conns' = RemoveAt(conns, i)
  /\ last' = CatchOutcome(Val(conns[i].req), conns[i].headersSent, err)
  /\ UNCHANGED <<listeners, server, serverPort, mounts, authCredentials, apiToken, apiReadToken>>

\* ---------------------------------------------------------------- inputs

\* Mount names are distinct strings; the model writes them 1..NumNames.
NumNames == 2
Names == 1..NumNames

\* Handlers are opaque callables; two are enough to tell a replaced handler
\* from its replacement.
Handlers == {"h1", "h2"}

\* start(port = 4100)
DefaultPort == 4100

Config(n, p, h, s) == [name |-> n, prefix |-> p, handler |-> h, skipAuth |-> s]

\* ---------------------------------------------------------------- routing

\* Prefixes as callers pass them: "/a", "a/", "/a/b", "/ab", "".
RoutePrefixes ==
  { <<"/", "a">>, <<"a", "/">>, <<"/", "a", "/", "b">>, <<"/", "a", "b">>, <<>> }

\* Prefixes passed to mountApi: "a".
RouteApiPrefixes == { <<"a">> }

\* "/a", "/a/", "/a/b", "/a/b/c", "/ab", "/zz", "/api/a", "/api/a/b", "/api/zz",
\* and the fixed routes "/", "/_api/mounts", "/api".
RoutePaths ==
  { <<"/", "a">>, <<"/", "a", "/">>, <<"/", "a", "/", "b">>,
    <<"/", "a", "/", "b", "/", "c">>, <<"/", "a", "b">>, <<"/", "z", "z">>,
    <<"/", "a", "p", "i", "/", "a">>, <<"/", "a", "p", "i", "/", "a", "/", "b">>,
    <<"/", "a", "p", "i", "/", "z", "z">>,
    DashboardPath, MountsPath, ApiRoot }

RouteNext ==
  \/ \E n \in Names, p \in RoutePrefixes : Mount(Config(n, p, "h1", FALSE))
  \/ \E n \in Names, p \in RouteApiPrefixes : MountApi(Config(n, p, "h1", FALSE))
  \/ \E n \in Names : Unmount(n)
  \/ \E n \in Names : UnmountApi(n)
  \/ Start(DefaultPort)
  \/ Stop
  \/ \E pathname \in RoutePaths : Request("GET", pathname, NoHeader)

SpecRoute == Init /\ [][RouteNext]_vars

\* ---------------------------------------------------------------- C1

\* The claims' own reading of "path is under prefix": equal, or the prefix
\* followed by "/" begins the path.
Under(path, prefix) ==
  \/ path = prefix
  \/ /\ Len(path) > Len(prefix)
     /\ \A k \in 1..Len(prefix) : path[k] = prefix[k]
     /\ path[Len(prefix) + 1] = "/"

FixedPaths == { ApiRoot, ApiRootSlash, DashboardPath, MountsPath }

\* The registry entries whose prefix the path is under.
MatchingEntries(path) == { i \in 1..Len(mounts) : Under(path, mounts[i].prefix) }

\* C1: for a request to a path that is not a fixed route, the router runs; the
\* mount it selects is a registered mount whose prefix the path is under, and no
\* registered mount the path is under has a strictly longer prefix; when no
\* mount matches, none is selected and no handler is invoked.
C1_LongestPrefixWins ==
  (last.op = "request" /\ last.method # "OPTIONS" /\ last.route # "session401"
     /\ last.pathname \notin FixedPaths) =>
    /\ last.routed
    /\ (MatchingEntries(last.pathname) = {} => IsNull(last.match) /\ ~last.invoked)
    /\ (MatchingEntries(last.pathname) # {} =>
          /\ ~IsNull(last.match)
          /\ \E i \in MatchingEntries(last.pathname) : mounts[i] = Val(last.match)
          /\ \A j \in MatchingEntries(last.pathname) :
               Len(mounts[j].prefix) <= Len(Val(last.match).prefix))
    /\ (last.invoked => ~IsNull(last.match))

\* C1 witness: "/a/b" was registered before "/a", and a request to "/a/b/c"
\* reached the handler of "/a/b".
C1_Witness ==
  /\ last.op = "request" /\ last.invoked
  /\ last.pathname = <<"/", "a", "/", "b", "/", "c">>
  /\ Len(mounts) = 2
  /\ mounts[1].prefix = <<"/", "a", "/", "b">>
  /\ mounts[2].prefix = <<"/", "a">>
  /\ Val(last.match) = mounts[1]

\* ---------------------------------------------------------------- token gate

\* Arguments of setApiToken: null, "", "F".
FullTokenValues == { Null, Some(<<>>), Some(<<"F">>) }

\* Arguments of setApiReadToken: null, "", "R", and "F" (the full token's value).
ReadTokenValues == { Null, Some(<<>>), Some(<<"R">>), Some(<<"F">>) }

\* Authorization headers: none, "Bearer F", "Bearer R", "Bearer FR" (wrong, and
\* longer than either token), and a header without the "Bearer " prefix.
TokenHeaders ==
  { NoHeader, BearerHeader(<<"F">>), BearerHeader(<<"R">>),
    BearerHeader(<<"F", "R">>), OtherHeader }

TokenMethods == { "GET", "HEAD", "POST", "OPTIONS" }

\* "/api", "/api/ext/x", "/api/zz"
TokenPaths ==
  { ApiRoot, <<"/", "a", "p", "i", "/", "e", "x", "t", "/", "x">>,
    <<"/", "a", "p", "i", "/", "z", "z">> }

\* mountApi is called with "/ext", mount with "/api/ext/".
ExtPrefix == <<"/", "e", "x", "t">>
ApiExtSlash == <<"/", "a", "p", "i", "/", "e", "x", "t", "/">>

TokenNext ==
  \/ \E n \in Names, s \in BOOLEAN : MountApi(Config(n, ExtPrefix, "h1", s))
  \/ \E n \in Names : Mount(Config(n, ApiExtSlash, "h1", FALSE))
  \/ \E n \in Names : Unmount(n)
  \/ \E t \in FullTokenValues : SetApiToken(t)
  \/ \E t \in ReadTokenValues : SetApiReadToken(t)
  \/ Start(DefaultPort)
  \/ Stop
  \/ \E method \in TokenMethods, pathname \in TokenPaths, header \in TokenHeaders :
       Request(method, pathname, header)

SpecToken == Init /\ [][TokenNext]_vars

\* The claims' reading of the token gate.  A token is configured when
\* setApiToken / setApiReadToken last stored a string ("Pass null to disable").
Configured(t) == ~IsNull(t)

\* The request presents token t as its bearer value.
BearerIs(header, t) == header.scheme = "Bearer" /\ ~IsNull(t) /\ header.token = Val(t)

IsRead(method) == method \in {"GET", "HEAD"}

\* The decision table of the claims: 0 is Allowed, else the status.
TableOutcome(method, header, full, read) ==
  IF ~Configured(full) /\ ~Configured(read) THEN 0
  ELSE IF BearerIs(header, full) THEN 0
  ELSE IF BearerIs(header, read) THEN (IF IsRead(method) THEN 0 ELSE 403)
  ELSE 401

\* What the token gate did for the latest request: 0 when it let it through.
GateOutcome == IF last.route \in {"token401", "token403"} THEN last.status ELSE 0

\* ---------------------------------------------------------------- C2

\* C2: whenever a token is configured, the handler of a matched API-namespace
\* mount without skipAuth is invoked only for a request whose bearer value is
\* fullToken, or is readToken with method GET or HEAD.
C2_TokenGatedHandler ==
  (last.op = "request" /\ last.invoked
     /\ (Configured(apiToken) \/ Configured(apiReadToken))
     /\ Under(Val(last.match).prefix, ApiRoot) /\ ~Val(last.match).skipAuth) =>
    \/ BearerIs(last.header, apiToken)
    \/ (BearerIs(last.header, apiReadToken) /\ IsRead(last.method))

\* C2 holds when "configured" is read as "set to a non-empty string".
TokenGatedHandler_NonEmpty ==
  (last.op = "request" /\ last.invoked
     /\ (Truthy(apiToken) \/ Truthy(apiReadToken))
     /\ Under(Val(last.match).prefix, ApiRoot) /\ ~Val(last.match).skipAuth) =>
    \/ BearerIs(last.header, apiToken)
    \/ (BearerIs(last.header, apiReadToken) /\ IsRead(last.method))

\* ---------------------------------------------------------------- C3

\* C3: whenever the token gate is evaluated its outcome is the decision table's:
\* Allowed when neither token is configured; else Allowed for the full token;
\* else, for the read token, Allowed on GET/HEAD and 403 otherwise; else 401.
C3_DecisionTable ==
  (last.op = "request" /\ last.tokenGate) =>
    GateOutcome = TableOutcome(last.method, last.header, apiToken, apiReadToken)

\* The table holds in every state whose tokens are null or non-empty.
DecisionTable_NonEmpty ==
  (last.op = "request" /\ last.tokenGate
     /\ (IsNull(apiToken) \/ Truthy(apiToken))
     /\ (IsNull(apiReadToken) \/ Truthy(apiReadToken))) =>
    GateOutcome = TableOutcome(last.method, last.header, apiToken, apiReadToken)

\* ---------------------------------------------------------------- C8

\* C8: a non-OPTIONS request to an API path that matches no mount goes through
\* the token gate first: with a token configured and no valid token presented
\* it gets 401 (403 for the read token with a write method), never 404, and
\* 404 is written only when the gate allows the request.
C8_UnmatchedApiGated ==
  (last.op = "request" /\ last.method # "OPTIONS"
     /\ Under(last.pathname, ApiRoot) /\ last.pathname \notin FixedPaths
     /\ MatchingEntries(last.pathname) = {}) =>
    /\ last.tokenGate
    /\ last.status \in {401, 403, 404}
    /\ ((Configured(apiToken) \/ Configured(apiReadToken))
          /\ ~BearerIs(last.header, apiToken) /\ ~BearerIs(last.header, apiReadToken)
        => last.status = 401)
    /\ ((Configured(apiToken) \/ Configured(apiReadToken))
          /\ ~BearerIs(last.header, apiToken) /\ BearerIs(last.header, apiReadToken)
          /\ ~IsRead(last.method)
        => last.status = 403)
    /\ (last.status = 404 =>
          TableOutcome(last.method, last.header, apiToken, apiReadToken) = 0)

\* C8 holds in every state whose tokens are null or non-empty.
UnmatchedApiGated_NonEmpty ==
  ((IsNull(apiToken) \/ Truthy(apiToken)) /\ (IsNull(apiReadToken) \/ Truthy(apiReadToken)))
    => C8_UnmatchedApiGated

\* ---------------------------------------------------------------- skipAuth

\* mountApi is called with "/ext" and "/ext/sub", each with or without skipAuth.
SkipPrefixes == { ExtPrefix, <<"/", "e", "x", "t", "/", "s", "u", "b">> }

\* "/api/ext/x", "/api/ext/sub/x", "/api/zz"
SkipPaths ==
  { <<"/", "a", "p", "i", "/", "e", "x", "t", "/", "x">>,
    <<"/", "a", "p", "i", "/", "e", "x", "t", "/", "s", "u", "b", "/", "x">>,
    <<"/", "a", "p", "i", "/", "z", "z">> }

SkipHeaders == { NoHeader, BearerHeader(<<"F">>), BearerHeader(<<"F", "R">>) }

SkipNext ==
  \/ \E n \in Names, p \in SkipPrefixes, s \in BOOLEAN : MountApi(Config(n, p, "h1", s))
  \/ \E n \in Names : Unmount(n)
  \/ \E t \in FullTokenValues : SetApiToken(t)
  \/ Start(DefaultPort)
  \/ Stop
  \/ \E method \in {"GET", "POST"}, pathname \in SkipPaths, header \in SkipHeaders :
       Request(method, pathname, header)

SpecSkip == Init /\ [][SkipNext]_vars

\* ---------------------------------------------------------------- C4

\* C4: with a token configured, a request without Authorization header whose
\* selected (longest-prefix) mount is an API mount with skipAuth reaches that
\* mount's handler, and a request without a valid token whose selected mount is
\* an API mount without skipAuth gets 401 and reaches no handler; only the
\* selected mount's flag counts.
C4_SkipAuthOptOut ==
  (last.op = "request" /\ last.method # "OPTIONS" /\ last.pathname \notin FixedPaths
     /\ (Configured(apiToken) \/ Configured(apiReadToken))
     /\ ~IsNull(last.match) /\ Under(Val(last.match).prefix, ApiRoot)) =>
    /\ (last.header = NoHeader /\ Val(last.match).skipAuth => last.invoked)
    /\ (~BearerIs(last.header, apiToken) /\ ~BearerIs(last.header, apiReadToken)
          /\ ~Val(last.match).skipAuth
        => last.status = 401 /\ ~last.invoked)

\* C4 holds in every state whose tokens are null or non-empty.
SkipAuthOptOut_NonEmpty ==
  ((IsNull(apiToken) \/ Truthy(apiToken)) /\ (IsNull(apiReadToken) \/ Truthy(apiReadToken)))
    => C4_SkipAuthOptOut

\* A skipAuth mount at "/api/ext" does not open the mount at "/api/ext/sub":
\* with token "F" set, a request without header under both is refused.
SkipAuthIsPerMount ==
  (last.op = "request" /\ apiToken = Some(<<"F">>) /\ last.header = NoHeader
     /\ \E i, j \in 1..Len(mounts) :
          /\ mounts[i].prefix = <<"/", "a", "p", "i", "/", "e", "x", "t">>
          /\ mounts[j].prefix = <<"/", "a", "p", "i", "/", "e", "x", "t", "/", "s", "u", "b">>
          /\ \A k \in 1..Len(mounts) : k \in {i, j}
          /\ mounts[i].skipAuth /\ ~mounts[j].skipAuth) =>
    /\ (last.pathname = <<"/", "a", "p", "i", "/", "e", "x", "t", "/", "x">> => last.invoked)
    /\ (last.pathname = <<"/", "a", "p", "i", "/", "e", "x", "t", "/", "s", "u", "b", "/", "x">>
          => last.status = 401 /\ ~last.invoked)

\* ---------------------------------------------------------------- session gate

\* Arguments of setAuth: null; {password: "s"}; {username: "u", password: "s:t"};
\* {username: "a:b", password: "s"}.
AuthConfigs ==
  { Null,
    Some([username |-> Null, password |-> <<"s">>]),
    Some([username |-> Some(<<"u">>), password |-> <<"s", ":", "t">>]),
    Some([username |-> Some(<<"a", ":", "b">>), password |-> <<"s">>]) }

\* Authorization headers: none; a non-Basic header; the headers clients build
\* for pi/s, pi/t, u/s:t and a:b/s; the header for pi/s without its padding;
\* and Basic headers whose text decodes to "pis" (no colon), to nothing, and
\* to one stray symbol.
SessionHeaders ==
  { NoHeader, OtherHeader,
    BasicFor(<<"p", "i">>, <<"s">>),
    BasicFor(<<"p", "i">>, <<"t">>),
    BasicFor(<<"u">>, <<"s", ":", "t">>),
    BasicFor(<<"a", ":", "b">>, <<"s">>),
    BasicHeader(BeforePad(Base64Encode(Bytes(<<"p", "i", ":", "s">>)))),
    BasicHeader(Base64Encode(Bytes(<<"p", "i", "s">>))),
    BasicHeader(<<>>),
    BasicHeader(<<28>>) }

\* "/", "/_api/mounts", "/m", "/zz", and the API path "/api"
SessionPaths ==
  { DashboardPath, MountsPath, <<"/", "m">>, <<"/", "z", "z">>, ApiRoot }

SessionNext ==
  \/ \E n \in Names : Mount(Config(n, <<"/", "m">>, "h1", FALSE))
  \/ \E n \in Names : Unmount(n)
  \/ \E config \in AuthConfigs : SetAuth(config)
  \/ Start(DefaultPort)
  \/ Stop
  \/ \E method \in {"GET", "POST", "OPTIONS"}, pathname \in SessionPaths,
        header \in SessionHeaders : Request(method, pathname, header)

SpecSession == Init /\ [][SessionNext]_vars

\* ---------------------------------------------------------------- C5

\* The latest request is a non-OPTIONS request outside the API namespace.
GeneralRequest ==
  last.op = "request" /\ last.method # "OPTIONS" /\ ~Under(last.pathname, ApiRoot)

HasColon(s) == \E i \in 1..Len(s) : s[i] = ":"

\* A request refused by the session gate got 401 with the challenge and reached
\* neither the dashboard, the mount listing nor a handler.
SessionRefusal ==
  /\ last.status = 401 /\ last.wwwAuthenticate
  /\ ~last.routed /\ ~last.invoked /\ IsNull(last.match) /\ last.body = NoBody

\* C5 as stated: with credentials {username, password} configured, a general
\* request passes the session gate if and only if its header is
\* Basic base64(username:password); every other request is refused with 401.
C5_SessionGateIff ==
  (GeneralRequest /\ ~IsNull(authCredentials)) =>
    /\ (last.route # "session401") <=>
         (last.header = BasicFor(Val(authCredentials).username, Val(authCredentials).password))
    /\ (last.route = "session401" => SessionRefusal)

\* C5 amended: the request passes if and only if the username holds no colon,
\* the header starts with "Basic " and the rest decodes (padding optional) to
\* username:password; so the client's header passes, colons in the password
\* included; every other request is refused with 401 and the challenge.
C5_SessionGateDecoded ==
  (GeneralRequest /\ ~IsNull(authCredentials)) =>
    LET u == Val(authCredentials).username
        p == Val(authCredentials).password
    IN  /\ (last.route # "session401") <=>
             /\ ~HasColon(u)
             /\ last.header.scheme = "Basic"
             /\ ToChars(Base64Decode(last.header.b64)) = u \o <<":">> \o p
        /\ (~HasColon(u) /\ last.header = BasicFor(u, p) => last.route # "session401")
        /\ (last.route = "session401" => SessionRefusal)

\* C5 witness: with {username: "u", password: "s:t"} the client's header reached
\* the handler mounted at "/m".
C5_Witness ==
  /\ GeneralRequest
  /\ authCredentials = Some([username |-> <<"u">>, password |-> <<"s", ":", "t">>])
  /\ last.header = BasicFor(<<"u">>, <<"s", ":", "t">>)
  /\ last.pathname = <<"/", "m">>
  /\ last.invoked

\* ---------------------------------------------------------------- C6

\* C6: setAuth(null) leaves no credentials, and while none are configured no
\* general request is refused by the session gate, whatever its header.
C6_SessionGateDisabled ==
  /\ (last.op = "setAuth" /\ IsNull(last.config) => IsNull(authCredentials))
  /\ (last.op = "request" /\ IsNull(authCredentials) /\ ~Under(last.pathname, ApiRoot) =>
        last.route # "session401" /\ last.status # 401)

\* C6 witness: without credentials a request with a Basic header for pi/t was
\* served the dashboard.
C6_Witness ==
  /\ last.op = "request" /\ IsNull(authCredentials)
  /\ last.header = BasicFor(<<"p", "i">>, <<"t">>)
  /\ last.route = "dashboard" /\ last.status = 200

\* ---------------------------------------------------------------- both gates

\* setAuth(null), setAuth({password: "s"})
BothAuthConfigs == { Null, Some([username |-> Null, password |-> <<"s">>]) }

\* Authorization headers: none, the Basic header for pi/s, "Bearer F", "Bearer R".
BothHeaders ==
  { NoHeader, BasicFor(<<"p", "i">>, <<"s">>), BearerHeader(<<"F">>), BearerHeader(<<"R">>) }

\* "/", "/m", "/zz", "/api", "/api/ext", "/api/zz"
BothPaths ==
  { DashboardPath, <<"/", "m">>, <<"/", "z", "z">>, ApiRoot,
    <<"/", "a", "p", "i", "/", "e", "x", "t">>, <<"/", "a", "p", "i", "/", "z", "z">> }

Next ==
  \/ \E n \in Names : Mount(Config(n, <<"/", "m">>, "h1", FALSE))
  \/ \E n \in Names : MountApi(Config(n, ExtPrefix, "h1", FALSE))
  \/ \E n \in Names : Unmount(n)
  \/ \E config \in BothAuthConfigs : SetAuth(config)
  \/ \E t \in {Null, Some(<<"F">>)} : SetApiToken(t)
  \/ \E t \in {Null, Some(<<"R">>)} : SetApiReadToken(t)
  \/ Start(DefaultPort)
  \/ Stop
  \/ \E method \in {"GET", "POST", "OPTIONS"}, pathname \in BothPaths, header \in BothHeaders :
       Request(method, pathname, header)

Spec == Init /\ [][Next]_vars

\* ---------------------------------------------------------------- C7

RemountPrefixes == { <<"/", "a">>, <<"/", "a", "/", "b">>, <<"/", "c">> }

\* "/a", "/a/b", "/a/b/x", "/c", "/zz"
RemountPaths ==
  { <<"/", "a">>, <<"/", "a", "/", "b">>, <<"/", "a", "/", "b", "/", "x">>,
    <<"/", "c">>, <<"/", "z", "z">> }

RemountNext ==
  \/ \E n \in Names, p \in RemountPrefixes, h \in Handlers : Mount(Config(n, p, h, FALSE))
  \/ \E n \in Names : Unmount(n)
  \/ Start(DefaultPort)
  \/ Stop
  \/ \E pathname \in RemountPaths : Request("GET", pathname, NoHeader)

SpecRemount == Init /\ [][RemountNext]_vars

\* ---------------------------------------------------------------- C9

\* At most one registration per name.
UniqueNames ==
  \A i, j \in 1..Len(mounts) : mounts[i].name = mounts[j].name => i = j

\* Right after mount(config) the registry holds config's handler and flag under
\* config's name.
LatestMount ==
  last.op = "mount" =>
    \E i \in 1..Len(mounts) :
      /\ mounts[i].name = last.config.name
      /\ mounts[i].handler = last.config.handler
      /\ mounts[i].skipAuth = last.config.skipAuth

\* A registration changes only in a mount or unmount of its own name.
OnlyOwnCalls ==
  \A n \in Names :
    ({ mounts[i] : i \in { k \in 1..Len(mounts) : mounts[k].name = n } }
       # { mounts'[i] : i \in { k \in 1..Len(mounts') : mounts'[k].name = n } })
    => last'.op \in {"mount", "mountApi", "unmount", "unmountApi"} /\ last'.name = n

\* The step is a request served right after name N was re-mounted from prefix
\* `old` to a different prefix.
RequestAfterRemount ==
  /\ last.op = "mount" /\ ~IsNull(last.old)
  /\ \E i \in 1..Len(mounts) :
       mounts[i].name = last.name /\ mounts[i].prefix # Val(last.old)
  /\ last'.op = "request"

\* The entry the registry holds under the re-mounted name.
Remounted == mounts[CHOOSE i \in 1..Len(mounts) : mounts[i].name = last.name]

\* C9 as stated: one registration per name, the latest mount's; and after name
\* N is re-mounted with a different prefix, a request under the old prefix does
\* not reach N's handler, while a request under the new prefix reaches the new
\* handler.
C9_ReplaceByName ==
  /\ [](UniqueNames /\ LatestMount)
  /\ [][OnlyOwnCalls]_vars
  /\ [][RequestAfterRemount =>
          /\ (Under(last'.pathname, Val(last.old)) =>
                IsNull(last'.match) \/ Val(last'.match).name # last.name)
          /\ (Under(last'.pathname, Remounted.prefix) =>
                last'.invoked /\ Val(last'.match) = Remounted)]_vars

\* C9 amended: one registration per name, the latest mount's; after name N is
\* re-mounted with a different prefix, a request reaches N only through the new
\* registration (new prefix, new handler): a request under the old prefix
\* reaches N only if it is also under the new prefix, and a request under the
\* new prefix reaches the new handler unless another registration matches with
\* a longer prefix, or with an equal prefix and an earlier place in the registry.
C9_ReplaceByNameAmended ==
  /\ [](UniqueNames /\ LatestMount)
  /\ [][OnlyOwnCalls]_vars
  /\ [][RequestAfterRemount =>
          /\ (~IsNull(last'.match) /\ Val(last'.match).name = last.name =>
                /\ Val(last'.match) = Remounted
                /\ Val(last'.match).handler = last.config.handler
                /\ Under(last'.pathname, Remounted.prefix))
          /\ (Under(last'.pathname, Val(last.old)) /\ ~Under(last'.pathname, Remounted.prefix) =>
                IsNull(last'.match) \/ Val(last'.match).name # last.name)
          /\ (Under(last'.pathname, Remounted.prefix)
                /\ (\A j \in 1..Len(mounts) :
                      (Under(last'.pathname, mounts[j].prefix) /\ mounts[j] # Remounted) =>
                        \/ Len(mounts[j].prefix) < Len(Remounted.prefix)
                        \/ /\ Len(mounts[j].prefix) = Len(Remounted.prefix)
                           /\ \E i \in 1..(j - 1) : mounts[i] = Remounted)
              => last'.invoked /\ Val(last'.match) = Remounted)]_vars

\* C9 witness: name 1, first mounted at "/a/b" with handler h1, was re-mounted
\* at "/c" with handler h2.
C9_Witness ==
  /\ last.op = "mount" /\ last.name = 1
  /\ last.old = Some(<<"/", "a", "/", "b">>)
  /\ last.config.handler = "h2"
  /\ \E i \in 1..Len(mounts) :
       mounts[i].name = 1 /\ mounts[i].prefix = <<"/", "c">> /\ mounts[i].handler = "h2"

\* ---------------------------------------------------------------- C10

IsUnmount(l) == l.op \in {"unmount", "unmountApi"}

\* The registry without the entries of name n, the others in their order.
Without(m, n) == SelectSeq(m, LAMBDA e : e.name # n)

\* C10: unmount(name) returns true exactly when the name was registered and
\* removes that registration only; a second unmount(name) returns false and
\* changes nothing; a request is only ever routed to a registration the
\* registry holds, and a request served after the unmount is never routed to
\* that name: it gets 404 when no remaining mount matches, and otherwise goes
\* to a remaining mount with the longest matching prefix.
C10_Unmount ==
  /\ [](last.op = "request" /\ ~IsNull(last.match) =>
          \E i \in 1..Len(mounts) : mounts[i] = Val(last.match))
  /\ [][IsUnmount(last') =>
          /\ last'.ret = (\E i \in 1..Len(mounts) : mounts[i].name = last'.name)
          /\ mounts' = Without(mounts, last'.name)
          /\ \A i \in 1..Len(mounts') : mounts'[i].name # last'.name]_vars
  /\ [][(IsUnmount(last) /\ IsUnmount(last') /\ last'.name = last.name) =>
          ~last'.ret /\ mounts' = mounts]_vars
  /\ [][(IsUnmount(last) /\ last'.op = "request" /\ last'.pathname \notin FixedPaths) =>
          /\ (~IsNull(last'.match) =>
                /\ Val(last'.match).name # last.name
                /\ \E i \in MatchingEntries(last'.pathname) : mounts[i] = Val(last'.match)
                /\ \A j \in MatchingEntries(last'.pathname) :
                     Len(mounts[j].prefix) <= Len(Val(last'.match).prefix))
          /\ (MatchingEntries(last'.pathname) = {} <=> last'.status = 404)
          /\ (MatchingEntries(last'.pathname) # {} <=> last'.invoked)]_vars

\* C10 witness: unmount returned true, removed the entry of prefix "/a/b" and
\* left the mount at "/a", to which a request to "/a/b" now falls through.
C10_Witness ==
  /\ last.op = "unmount" /\ last.ret
  /\ Len(mounts) = 1 /\ mounts[1].prefix = <<"/", "a">>
  /\ mounts[1].name # last.name
  /\ ~IsNull(server)
  /\ BestMatch(mounts, <<"/", "a", "/", "b">>) = Some(mounts[1])

\* ---------------------------------------------------------------- C11

\* The header carries the configured Basic credentials.
ValidBasic(header) ==
  /\ header.scheme = "Basic"
  /\ ToChars(Base64Decode(header.b64)) =
       Val(authCredentials).username \o <<":">> \o Val(authCredentials).password

\* C11: while Basic auth is enabled, every non-OPTIONS request without valid
\* Basic credentials, to the dashboard, /_api/mounts, a mount or any /api path,
\* is rejected with 401 and reaches neither a listing nor a handler.
C11_BasicAuthAllEndpoints ==
  (last.op = "request" /\ last.method # "OPTIONS"
     /\ ~IsNull(authCredentials) /\ ~ValidBasic(last.header)) =>
    last.status = 401 /\ ~last.invoked /\ last.body = NoBody

\* Outside the API namespace the statement holds: the session gate refuses
\* the request before any routing.
BasicAuthGeneralEndpoints ==
  (last.op = "request" /\ last.method # "OPTIONS" /\ ~IsApiPath(last.pathname)
     /\ ~IsNull(authCredentials) /\ ~ValidBasic(last.header)) =>
    last.route = "session401" /\ SessionRefusal

\* ---------------------------------------------------------------- prefixes

\* Prefixes as callers pass them to mount and mountApi:
\* "", "/", "///", "x", "/x//", "/x/y/".
PrefixInputs ==
  { <<>>, <<"/">>, <<"/", "/", "/">>, <<"x">>, <<"/", "x", "/", "/">>,
    <<"/", "x", "/", "y", "/">> }

\* "/x", "/x/y/z", "//x", "/api/x", "/api/x/y", "/api/zz"
PrefixPaths ==
  { <<"/", "x">>, <<"/", "x", "/", "y", "/", "z">>, <<"/", "/", "x">>,
    <<"/", "a", "p", "i", "/", "x">>, <<"/", "a", "p", "i", "/", "x", "/", "y">>,
    <<"/", "a", "p", "i", "/", "z", "z">> }

PrefixNext ==
  \/ \E n \in Names, p \in PrefixInputs : Mount(Config(n, p, "h1", FALSE))
  \/ \E n \in Names, p \in PrefixInputs, s \in BOOLEAN : MountApi(Config(n, p, "h1", s))
  \/ \E n \in Names : Unmount(n)
  \/ \E t \in {Null, Some(<<"F">>)} : SetApiToken(t)
  \/ Start(DefaultPort)
  \/ Stop
  \/ \E pathname \in PrefixPaths : Request("GET", pathname, NoHeader)

SpecPrefix == Init /\ [][PrefixNext]_vars

\* ---------------------------------------------------------------- C12

EndsWithSlash(s) == Len(s) > 0 /\ s[Len(s)] = "/"

\* C12: every stored registration's prefix begins with "/", does not end with
\* "/", and is not the root "/".
C12_NormalizedPrefix ==
  \A i \in 1..Len(mounts) :
    /\ StartsWith(mounts[i].prefix, <<"/">>)
    /\ ~EndsWithSlash(mounts[i].prefix)
    /\ mounts[i].prefix # <<"/">>

\* What does hold: every stored prefix begins with "/", and the only stored
\* prefix that ends with "/" is the root "/" itself.
NormalizedPrefix_OrRoot ==
  \A i \in 1..Len(mounts) :
    /\ StartsWith(mounts[i].prefix, <<"/">>)
    /\ (EndsWithSlash(mounts[i].prefix) => mounts[i].prefix = <<"/">>)

\* ---------------------------------------------------------------- C17

\* The step serves a request routed to the mount that mountApi just registered.
RoutedToApiMount ==
  /\ last.op = "mountApi" /\ last'.op = "request"
  /\ ~IsNull(last'.match) /\ Val(last'.match).name = last.name

\* C17: the registration created by mountApi has a stored prefix in the API
\* namespace, equal to "/api" followed by the normalized input prefix; a request
\* routed to it is an API-namespace request, subject to the token gate unless
\* the mount has skipAuth.
C17_MountApiPrefix ==
  /\ [](last.op = "mountApi" =>
          /\ Under(MapGet(mounts, last.name).prefix, ApiRoot)
          /\ MapGet(mounts, last.name).prefix =
               ApiRoot \o NormalizePrefix(last.config.prefix))
  /\ [][RoutedToApiMount =>
          /\ Under(last'.pathname, ApiRoot)
          /\ (last'.tokenGate <=> ~Val(last'.match).skipAuth)]_vars

\* What does hold: the stored prefix is in the API namespace and is "/api"
\* followed by the normalized input prefix, normalized once more; and a request
\* routed to the registration passes the token gate unless skipAuth is set.
MountApiPrefix_Renormalized ==
  /\ [](last.op = "mountApi" =>
          /\ Under(MapGet(mounts, last.name).prefix, ApiRoot)
          /\ MapGet(mounts, last.name).prefix =
               NormalizePrefix(ApiRoot \o NormalizePrefix(last.config.prefix))
          /\ (NormalizePrefix(last.config.prefix) # <<"/">> =>
                MapGet(mounts, last.name).prefix =
                  ApiRoot \o NormalizePrefix(last.config.prefix)))
  /\ [][RoutedToApiMount =>
          /\ Under(last'.pathname, ApiRoot)
          /\ (last'.tokenGate <=> ~Val(last'.match).skipAuth)]_vars

\* ---------------------------------------------------------------- handler failures

\* Handlers mounted at "/m": one that answers, one that returns a pending
\* promise, one that throws within the call.
FailingHandlers == { "h1", AsyncHandler, ThrowingHandler }

\* "/m/x", "/zz"
HandlerPaths == { <<"/", "m", "/", "x">>, <<"/", "z", "z">> }

\* One name is mounted, re-mounted with another handler and unmounted while
\* requests are pending.
HandlerNext ==
  \/ \E h \in FailingHandlers : Mount(Config(1, <<"/", "m">>, h, FALSE))
  \/ Unmount(1)
  \/ Start(DefaultPort)
  \/ Stop
  \/ \E pathname \in HandlerPaths : Request("GET", pathname, NoHeader)
  \/ \E i \in 1..MaxConns : HandlerWrite(i)
  \/ \E i \in 1..MaxConns : HandlerResolve(i)
  \/ \E i \in 1..MaxConns, err \in Failures : HandlerReject(i, err)

SpecHandler == Init /\ [][HandlerNext]_vars

\* ---------------------------------------------------------------- C13

\* The step is a handler failure reaching the dispatcher.
HandlerFailed == last'.op = "handlerFailure"

\* The dispatcher answered the failure with one complete 500 response whose
\* JSON body carries the failure's message in its error field.
Answered500 ==
  /\ last'.status = 500 /\ last'.ended /\ ~last'.unhandled
  /\ ~IsNull(last'.body) /\ ~IsNull(Val(last'.body).error)
  /\ (last'.error.kind = "Error" => Val(Val(last'.body).error) = last'.error.message)

\* The dispatcher wrote nothing for the failure.
WroteNothing ==
  last'.status = 0 /\ ~last'.ended /\ IsNull(last'.body) /\ ~last'.unhandled

\* The failure left the registry, the credentials, the server and every other
\* pending request as they were.
FailureIsLocal ==
  /\ UNCHANGED <<mounts, authCredentials, apiToken, apiReadToken, server, serverPort, listeners>>
  /\ \/ conns' = conns
     \/ \E i \in 1..Len(conns) :
          /\ ~IsNull(conns[i].req) /\ Val(conns[i].req) = last'.request
          /\ conns' = RemoveAt(conns, i)

\* C13: when the invoked handler throws or its promise rejects, the dispatcher
\* writes exactly one 500 response carrying the failure's message if no
\* response has been begun, and nothing if one has; the failure changes neither
\* the registry, the credentials, the server state nor other pending requests.
C13_HandlerFailure ==
  [][HandlerFailed =>
       /\ (~last'.headersSent => Answered500)
       /\ (last'.headersSent => WroteNothing)
       /\ last'.request.invoked /\ last'.request.status = 0
       /\ FailureIsLocal]_vars

\* C13 holds for failures that are Error objects.
HandlerFailure_ErrorObjects ==
  [][HandlerFailed /\ last'.error.kind = "Error" =>
       /\ (~last'.headersSent => Answered500)
       /\ (last'.headersSent => WroteNothing)
       /\ last'.request.invoked /\ last'.request.status = 0
       /\ FailureIsLocal]_vars

\* A failure is never answered with a second status (no 404 after the handler
\* ran) and never more than once, whatever it is.
HandlerFailure_NoSecondAnswer ==
  [][HandlerFailed =>
       /\ last'.status \in {0, 500}
       /\ (last'.headersSent => last'.status = 0)
       /\ FailureIsLocal]_vars

\* ---------------------------------------------------------------- start and stop

\* Ports passed to start: the default and 8080.
LifePorts == { DefaultPort, 8080 }

\* Clients connect and stay connected, requests to "/m" are pending in an
\* asynchronous handler, and start and stop are called in any order.
LifeNext ==
  \/ Mount(Config(1, <<"/", "m">>, AsyncHandler, FALSE))
  \/ \E port \in LifePorts : Start(port)
  \/ Stop
  \/ Connect
  \/ Request("GET", <<"/", "m">>, NoHeader)
  \/ \E i \in 1..MaxConns : HandlerResolve(i)

SpecLife == Init /\ [][LifeNext]_vars

\* The open listening sockets are exactly the one of the running server.
OneListener ==
  /\ Cardinality(listeners) <= 1
  /\ listeners = IF isRunning THEN {Val(server).id} ELSE {}

\* Every open connection was accepted by the listener of the running server.
NoStaleConnection ==
  \A i \in 1..Len(conns) :
    conns[i].open => isRunning /\ conns[i].listener = Val(server).id

\* ---------------------------------------------------------------- C14

\* C14: start(p) leaves exactly one listener, isRunning() true, getPort() = p
\* and returns the URL of port p; when a server was running, its listener is
\* closed and none of its connections stays open; in no reachable state are two
\* listeners open, and no open connection belongs to a replaced listener.
C14_RestartOnStart ==
  /\ [](OneListener /\ NoStaleConnection)
  /\ [][last'.op = "start" =>
          /\ last'.restarted = isRunning
          /\ isRunning' /\ getPort' = Some(last'.port) /\ last'.url = Some(Url(last'.port))
          /\ Cardinality(listeners') = 1
          /\ \A i \in 1..Len(conns') : ~conns'[i].open
          /\ Len(conns') = Cardinality({ i \in 1..Len(conns) : ~IsNull(conns[i].req) })
          /\ UNCHANGED <<mounts, authCredentials, apiToken, apiReadToken>>]_vars

\* C14 witness: a server on port 4100 with a pending request was restarted on
\* port 8080; the request's connection is on record, closed.
C14_Witness ==
  /\ last.op = "start" /\ last.restarted /\ last.port = 8080
  /\ serverPort = Some(8080)
  /\ Len(conns) >= 1 /\ ~conns[1].open /\ ~IsNull(conns[1].req)
  /\ conns[1].listener # Val(server).id

\* ---------------------------------------------------------------- C15

\* Everything but the observation of the latest call is as before.
SameState ==
  UNCHANGED <<server, serverPort, mounts, authCredentials, apiToken, apiReadToken,
              listeners, conns>>

\* C15: stop() on a running server closes every connection and the listener,
\* clears the port and returns true; on a stopped server it returns false and
\* changes nothing; after any stop isRunning() is false and getPort() and
\* getUrl() are null, so repeated stops leave the state of the first.
C15_StopIdempotent ==
  /\ [][last'.op = "stop" =>
          /\ last'.ret = isRunning
          /\ ~isRunning' /\ IsNull(getPort') /\ IsNull(getUrl')
          /\ listeners' = {}
          /\ \A i \in 1..Len(conns') : ~conns'[i].open
          /\ (~isRunning => SameState)]_vars
  /\ [][(last.op = "stop" /\ last'.op = "stop") => ~last'.ret /\ SameState]_vars

\* C15 witness: a second stop() returned false; the first had closed the
\* connection of a pending request.
C15_Witness ==
  /\ last.op = "stop" /\ ~last.ret
  /\ ~isRunning /\ IsNull(getPort) /\ IsNull(getUrl)
  /\ Len(conns) >= 1 /\ ~conns[1].open

\* ---------------------------------------------------------------- API listing

\* Prefixes passed to mount: "/apix" and "/m"; mountApi is called with "/ext".
ListingPrefixes == { <<"/", "a", "p", "i", "x">>, <<"/", "m">> }

ListingNext ==
  \/ \E n \in Names, p \in ListingPrefixes : Mount(Config(n, p, "h1", FALSE))
  \/ \E n \in Names, s \in BOOLEAN : MountApi(Config(n, ExtPrefix, "h1", s))
  \/ \E n \in Names : Unmount(n)
  \/ \E t \in FullTokenValues : SetApiToken(t)
  \/ \E t \in {Null, Some(<<"R">>)} : SetApiReadToken(t)
  \/ Start(DefaultPort)
  \/ Stop
  \/ \E method \in {"GET", "POST"}, pathname \in {ApiRoot, ApiRootSlash},
        header \in {NoHeader, BearerHeader(<<"F">>)} : Request(method, pathname, header)

SpecListing == Init /\ [][ListingNext]_vars

\* ---------------------------------------------------------------- C16

\* The latest request is a non-OPTIONS request to exactly "/api" or "/api/".
ListingRequest ==
  last.op = "request" /\ last.method # "OPTIONS"
    /\ last.pathname \in {ApiRoot, ApiRootSlash}

\* The listed entries, as a set.
Listed == { last.body.mounts[i] : i \in 1..Len(last.body.mounts) }

\* The registered mounts (without handlers) that satisfy InNamespace.
Registered(InNamespace(_)) ==
  { getMounts(mounts)[i] : i \in { k \in 1..Len(mounts) : InNamespace(mounts[k].prefix) } }

InApiNamespace(prefix) == Under(prefix, ApiRoot)

\* C16: a request to exactly /api or /api/ goes through the token gate and,
\* when allowed, gets 200 with the registered mounts of the API namespace
\* (prefix /api or beginning with /api/) and no other, without handlers, with
\* tokenAuth true iff a full token is configured and readTokenAuth true iff a
\* read token is configured.
C16_ApiListing ==
  ListingRequest =>
    /\ last.tokenGate /\ ~last.invoked
    /\ last.status \in {200, 401, 403}
    /\ (last.status = 200 =>
          /\ last.body.kind = "apiListing"
          /\ Listed = Registered(InApiNamespace)
          /\ Len(last.body.mounts) = Cardinality(Listed)
          /\ \A e \in Listed : "handler" \notin DOMAIN e
          /\ last.body.tokenAuth = Configured(apiToken)
          /\ last.body.readTokenAuth = Configured(apiReadToken))

HasApiLetters(prefix) == StartsWith(prefix, ApiRoot)

\* What does hold: the listing is the registered mounts whose prefix begins
\* with the characters "/api", in registration order; every API-namespace
\* mount is among them.
ApiListing_ByLetters ==
  ListingRequest =>
    /\ last.tokenGate /\ ~last.invoked
    /\ last.status \in {200, 401, 403}
    /\ (last.status = 200 =>
          /\ last.body.kind = "apiListing"
          /\ Listed = Registered(HasApiLetters)
          /\ Registered(InApiNamespace) \subseteq Listed
          /\ Len(last.body.mounts) = Cardinality(Listed)
          /\ \A e \in Listed : "handler" \notin DOMAIN e
          /\ last.body.tokenAuth = Configured(apiToken)
          /\ last.body.readTokenAuth = Configured(apiReadToken))

\* ---------------------------------------------------------------- /web command

\* s.trim()
RECURSIVE Trim(_)
Trim(s) ==
  IF Len(s) > 0 /\ s[1] = " " THEN Trim(Slice(s, 1))
  ELSE IF Len(s) > 0 /\ s[Len(s)] = " " THEN Trim(SubSeq(s, 1, Len(s) - 1))
  ELSE s

Digits == { "0", "1", "2", "3", "4", "5", "6", "7", "8", "9" }

DigitValue(c) ==
  CASE c = "0" -> 0 [] c = "1" -> 1 [] c = "2" -> 2 [] c = "3" -> 3 [] c = "4" -> 4
    [] c = "5" -> 5 [] c = "6" -> 6 [] c = "7" -> 7 [] c = "8" -> 8 [] c = "9" -> 9

\* The value of the leading decimal digits of s from position i on, given the
\* value acc of those before.
RECURSIVE ParseDigits(_, _, _)
ParseDigits(s, i, acc) ==
  IF i > Len(s) \/ s[i] \notin Digits THEN acc
  ELSE ParseDigits(s, i + 1, acc * 10 + DigitValue(s[i]))

\* parseInt(s) of a trimmed string: an optional sign and the leading decimal
\* digits; null stands for NaN.  (The strings the model passes hold no radix
\* prefix.)
ParseInt(s) ==
  LET negative == Len(s) > 0 /\ s[1] = "-"
      from == IF Len(s) > 0 /\ s[1] \in {"-", "+"} THEN 2 ELSE 1
  IN  IF from > Len(s) \/ s[from] \notin Digits THEN Null
      ELSE IF negative THEN Some(0 - ParseDigits(s, from, 0))
      ELSE Some(ParseDigits(s, from, 0))

\* parseInt(arg || "4100") || 4100
TogglePort(arg) ==
  LET parsed == ParseInt(IF arg = <<>> THEN <<"4", "1", "0", "0">> ELSE arg)
  IN  IF IsNull(parsed) \/ Val(parsed) = 0 THEN DefaultPort ELSE Val(parsed)

\* A toggle that stops and returns whenever the server was running.
ToggleStopsOnly_IgnoresArg(wasRunning, arg) == wasRunning

\* wasRunning && !arg
ToggleStopsOnly(wasRunning, arg) == wasRunning /\ arg = <<>>

WordStop == <<"s", "t", "o", "p">>
WordStatus == <<"s", "t", "a", "t", "u", "s">>
WordAuth == <<"a", "u", "t", "h">>
WordApi == <<"a", "p", "i">>
WordPort == <<"p", "o", "r", "t">>
WordOff == <<"o", "f", "f">>

\* arg === word || arg.startsWith(word + " ")
IsCommand(arg, word) == arg = word \/ StartsWith(arg, word \o <<" ">>)

\* The handler of the /web command; last.notify is the kind of message shown.
Web(args) ==
  LET arg == Trim(args)
      authArg == Trim(Slice(arg, 5))
      apiArg == Trim(Slice(arg, 4))
      portArg == Trim(Slice(arg, 5))
      newPort == ParseInt(portArg)
      colon == IndexOf(authArg, ":")
      Done(kind) == last' = [op |-> "web", arg |-> arg, notify |-> kind]
      Lifecycle == <<server, serverPort, listeners, conns>>
  IN  /\ UNCHANGED mounts
      /\ IF arg = WordStop
         THEN /\ stop
              /\ Done(IF ~IsNull(server) THEN "stopped" ELSE "notRunning")
              /\ UNCHANGED <<authCredentials, apiToken, apiReadToken>>
         ELSE IF IsCommand(arg, WordAuth)
         THEN /\ authCredentials' =
                   IF authArg = <<>> \/ authArg = WordStatus THEN authCredentials
                   ELSE IF authArg = WordOff THEN Null
                   ELSE IF colon # -1
                        THEN Some([username |-> SubSeq(authArg, 1, colon),
                                   password |-> Slice(authArg, colon + 1)])
                        ELSE Some([username |-> DefaultUsername, password |-> authArg])
              /\ Done("auth")
              /\ UNCHANGED <<server, serverPort, listeners, conns, apiToken, apiReadToken>>
         ELSE IF IsCommand(arg, WordApi)
         THEN /\ apiToken' =
                   IF apiArg = <<>> \/ apiArg = WordStatus THEN apiToken
                   ELSE IF apiArg = WordOff THEN Null
                   ELSE Some(apiArg)
              /\ Done("api")
              /\ UNCHANGED <<server, serverPort, listeners, conns, authCredentials, apiReadToken>>
         ELSE IF IsCommand(arg, WordPort)
         THEN /\ IF portArg = <<>>
                 THEN Done("port") /\ UNCHANGED Lifecycle
                 ELSE IF IsNull(newPort) \/ Val(newPort) < 1 \/ Val(newPort) > 65535
                      THEN Done("invalidPort") /\ UNCHANGED Lifecycle
                      ELSE Done("restarted") /\ start(Val(newPort))
              /\ UNCHANGED <<authCredentials, apiToken, apiReadToken>>
         ELSE IF arg = WordStatus
         THEN /\ Done("status")
              /\ UNCHANGED <<server, serverPort, listeners, conns,
                             authCredentials, apiToken, apiReadToken>>
         ELSE /\ IF ToggleStopsOnly(~IsNull(server), arg)
                 THEN Done("stopped") /\ stop
                 ELSE Done(IF ValidPort(TogglePort(arg)) THEN "started" ELSE "threw")
                      /\ start(TogglePort(arg))
              /\ UNCHANGED <<authCredentials, apiToken, apiReadToken>>

\* Arguments of /web: none, "stop", "status", "80", " 8080 ", "0", "x", "99999",
\* "port", "port 80", "port 0", "auth u:s", "auth off", "api F", "api off".
WebArgs ==
  { <<>>, WordStop, WordStatus, <<"8", "0">>, <<" ", "8", "0", "8", "0", " ">>,
    <<"0">>, <<"x">>, <<"9", "9", "9", "9", "9">>,
    WordPort, WordPort \o <<" ", "8", "0">>, WordPort \o <<" ", "0">>,
    WordAuth \o <<" ", "u", ":", "s">>, WordAuth \o <<" ">> \o WordOff,
    WordApi \o <<" ", "F">>, WordApi \o <<" ">> \o WordOff }

WebNext ==
  \/ \E args \in WebArgs : Web(args)
  \/ Start(DefaultPort)
  \/ Stop
  \/ Connect

SpecWeb == Init /\ [][WebNext]_vars

\* ---------------------------------------------------------------- C18

\* The argument is the decimal numeral of a port, 1 to 65535.
IsPortArg(arg) ==
  /\ Len(arg) > 0
  /\ \A i \in 1..Len(arg) : arg[i] \in Digits
  /\ ParseDigits(arg, 1, 0) \in 1..65535

\* C18: /web without argument stops a running server and leaves it stopped,
\* and starts a stopped one on port 4100; /web with a port argument ends with
\* the server running on that port, whether or not it was running; after
\* /web stop the server is not running.
C18_WebToggle ==
  [][last'.op = "web" =>
       /\ (last'.arg = <<>> /\ isRunning =>
             ~isRunning' /\ IsNull(getPort') /\ listeners' = {})
       /\ (last'.arg = <<>> /\ ~isRunning =>
             isRunning' /\ getPort' = Some(DefaultPort) /\ Cardinality(listeners') = 1)
       /\ (IsPortArg(last'.arg) =>
             /\ isRunning' /\ getPort' = Some(ParseDigits(last'.arg, 1, 0))
             /\ listeners' = {Val(server').id})
       /\ (last'.arg = WordStop => ~isRunning' /\ IsNull(getPort') /\ listeners' = {})]_vars

\* C18 witness: /web 8080 was entered and left the server running on port 8080
\* with one listener.
C18_Witness ==
  /\ last.op = "web" /\ last.arg = <<"8", "0", "8", "0">> /\ last.notify = "started"
  /\ isRunning /\ getPort = Some(8080) /\ Val(server).port = 8080
  /\ Cardinality(listeners) = 1

\* ---------------------------------------------------------------- namespaces

ApixPrefix == <<"/", "a", "p", "i", "x">>

\* "/api", "/api/ext", "/api/zz", "/apix", "/apix/y", "/zz"
NamespacePaths ==
  { ApiRoot, <<"/", "a", "p", "i", "/", "e", "x", "t">>,
    <<"/", "a", "p", "i", "/", "z", "z">>,
    ApixPrefix, <<"/", "a", "p", "i", "x", "/", "y">>, <<"/", "z", "z">> }

\* A general mount at "/apix" and an API mount at "/api/ext", each with or
\* without skipAuth; session credentials pi/s and the token "F" switched on and
\* off; requests without header, with the Basic header and with the token.
NamespaceNext ==
  \/ \E n \in Names, s \in BOOLEAN : Mount(Config(n, ApixPrefix, "h1", s))
  \/ \E n \in Names, s \in BOOLEAN : MountApi(Config(n, ExtPrefix, "h1", s))
  \/ \E n \in Names : Unmount(n)
  \/ \E config \in BothAuthConfigs : SetAuth(config)
  \/ \E t \in {Null, Some(<<"F">>)} : SetApiToken(t)
  \/ Start(DefaultPort)
  \/ Stop
  \/ \E pathname \in NamespacePaths,
        header \in {NoHeader, BasicFor(<<"p", "i">>, <<"s">>), BearerHeader(<<"F">>)} :
       Request("GET", pathname, header)

SpecNamespace == Init /\ [][NamespaceNext]_vars

\* ---------------------------------------------------------------- C19

GatesByNamespace_ApiSide ==
  (last.op = "request" /\ last.pathname = <<"/", "a", "p", "i", "/", "e", "x", "t">>
     /\ ~IsNull(authCredentials) /\ Truthy(apiToken) /\ last.header = NoHeader
     /\ ~IsNull(last.match) /\ ~Val(last.match).skipAuth) =>
    last.route = "token401" /\ ~last.wwwAuthenticate

\* ---------------------------------------------------------------- C20

\* C20: for every request routed to a handler, the subPath handed to it is the
\* request path with the selected mount's prefix removed, or "/" when the path
\* equals the prefix; it begins with "/", and prefix followed by subPath is the
\* path whenever the path is longer than the prefix.
C20_SubPath ==
  (last.op = "request" /\ last.invoked) =>
    LET prefix == Val(last.match).prefix
    IN  /\ Len(last.subPath) > 0 /\ last.subPath[1] = "/"
        /\ (last.pathname = prefix => last.subPath = <<"/">>)
        /\ (Len(last.pathname) > Len(prefix) => prefix \o last.subPath = last.pathname)
        /\ (last.pathname # prefix => Len(last.pathname) > Len(prefix))

\* C20 witness: a request to "/a/b/c" was routed to the mount at "/a" with
\* subPath "/b/c".
C20_Witness ==
  /\ last.op = "request" /\ last.invoked
  /\ last.pathname = <<"/", "a", "/", "b", "/", "c">>
  /\ Val(last.match).prefix = <<"/", "a">>
  /\ last.subPath = <<"/", "b", "/", "c">>

\* ---------------------------------------------------------------- C21

\* The registry entries with the longest prefix among those the path is under.
LongestEntries(path) ==
  { i \in MatchingEntries(path) :
      \A j \in MatchingEntries(path) : Len(mounts[j].prefix) <= Len(mounts[i].prefix) }

\* The latest request was routed while two names held the same longest
\* matching prefix.
TiedRequest ==
  /\ last.op = "request" /\ last.routed /\ ~IsNull(last.match)
  /\ Cardinality(LongestEntries(last.pathname)) >= 2

\* C21 as stated: when two names are registered with the same prefix and it is
\* the longest match, the mount that comes last in iteration order is invoked.
C21_TieLastWins ==
  TiedRequest =>
    \E i \in LongestEntries(last.pathname) :
      /\ \A j \in LongestEntries(last.pathname) : j <= i
      /\ Val(last.match) = mounts[i] /\ last.invoked

\* C21 amended: the mount that comes first in iteration order is invoked; the
\* choice depends on the registry and the path alone.
C21_TieFirstWins ==
  TiedRequest =>
    \E i \in LongestEntries(last.pathname) :
      /\ \A j \in LongestEntries(last.pathname) : i <= j
      /\ Val(last.match) = mounts[i] /\ last.invoked
      /\ Val(last.match).name # mounts[CHOOSE k \in LongestEntries(last.pathname) : k # i].name

\* C21 witness: names 2 and 1 were registered in this order, both at "/a", and
\* a request to "/a/b" reached the mount of name 2.
C21_Witness ==
  /\ last.op = "request" /\ last.invoked
  /\ last.pathname = <<"/", "a", "/", "b">>
  /\ Len(mounts) = 2
  /\ mounts[1].prefix = <<"/", "a">> /\ mounts[2].prefix = <<"/", "a">>
  /\ mounts[1].name = 2 /\ mounts[2].name = 1
  /\ Val(last.match).name = 2

\* ---------------------------------------------------------------- snapshots

\* "/m/x", "/api/m/x"
SnapshotPaths ==
  { <<"/", "m", "/", "x">>, <<"/", "a", "p", "i", "/", "m", "/", "x">> }

\* One name is mounted at "/m", at "/m/x" or, as an API mount with or without
\* skipAuth, at "/api/m", with a handler that answers at once or one that
\* stays pending; it is unmounted, and the session credentials and both
\* tokens are switched on and off, while handlers are pending.  The server is
\* started once; the requests carry no Authorization header.
SnapshotNext ==
  \/ \E p \in { <<"/", "m">>, <<"/", "m", "/", "x">> }, h \in {"h1", AsyncHandler} :
       Mount(Config(1, p, h, FALSE))
  \/ \E s \in BOOLEAN : MountApi(Config(1, <<"/", "m">>, AsyncHandler, s))
  \/ Unmount(1)
  \/ \E config \in BothAuthConfigs : SetAuth(config)
  \/ \E t \in {Null, Some(<<"F">>)} : SetApiToken(t)
  \/ \E t \in {Null, Some(<<"R">>)} : SetApiReadToken(t)
  \/ IsNull(server) /\ Start(DefaultPort)
  \/ \E pathname \in SnapshotPaths : Request("GET", pathname, NoHeader)
  \/ \E i \in 1..MaxConns : HandlerResolve(i)

SpecSnapshot == Init /\ [][SnapshotNext]_vars

\* ---------------------------------------------------------------- C22

\* The requests whose handlers are suspended.
Suspended(c) == { c[i].req : i \in { k \in 1..Len(c) : ~IsNull(c[k].req) } }

\* Every decision recorded in the response r is the one the registry m, the
\* credentials creds and the tokens full and read give for r's request, and
\* the registration, its skipAuth flag, the prefix cut off for subPath and the
\* handler all belong to one entry of m.
FromOneState(r, m, creds, full, read) ==
  /\ r.sessionGate <=> ~IsApiPath(r.pathname)
  /\ r.sessionGate => (r.route = "session401" <=> ~checkAuth(r.header, creds))
  /\ r.tokenGate =>
       (r.status \in {401, 403} <=> checkApiAuth(r.method, r.header, full, read) # 0)
  /\ r.routed /\ ~IsNull(r.match) =>
       \E i \in 1..Len(m) :
         /\ Val(r.match).name = m[i].name
         /\ Val(r.match).prefix = m[i].prefix
         /\ Val(r.match).skipAuth = m[i].skipAuth
         /\ Val(r.match).handler = m[i].handler
         /\ Matches(r.pathname, m[i].prefix)
         /\ r.tokenGate <=> (IsApiPath(r.pathname) /\ ~m[i].skipAuth)
         /\ r.invoked => r.subPath = SubPath(r.pathname, m[i].prefix)
  /\ r.routed /\ IsNull(r.match) =>
       \A i \in 1..Len(m) : ~Matches(r.pathname, m[i].prefix)

\* C22: every request is decided on the registry and the credentials of the
\* instant it is dispatched; a suspended request keeps that decision whatever
\* is mounted, unmounted or set meanwhile, and the handler that returns is the
\* one that was invoked.
C22_SnapshotConsistency ==
  [][/\ last'.op = "request" /\ (last' # last \/ conns' # conns) =>
          FromOneState(last', mounts, authCredentials, apiToken, apiReadToken)
     /\ \A r \in Suspended(conns') :
          \/ r \in Suspended(conns)
          \/ last'.op = "request" /\ r = Some(last')
     /\ last'.op = "handlerReturn" /\ last' # last =>
          /\ Some(last'.request) \in Suspended(conns)
          /\ last'.request.invoked
          /\ Val(last'.request.match).handler = AsyncHandler
     /\ last'.op \in {"mount", "mountApi", "unmount", "setAuth", "setApiToken", "setApiReadToken"} =>
          conns' = conns]_vars

\* C22 witness: a handler returns for a request that was routed to the API
\* mount without skipAuth and passed the token gate, after the mount was
\* replaced by one at "/m/x" and the token "F" was set, so that the same
\* request would now be refused.
C22_Witness ==
  /\ last.op = "handlerReturn"
  /\ last.request.pathname = <<"/", "a", "p", "i", "/", "m", "/", "x">>
  /\ last.request.tokenGate /\ ~Val(last.request.match).skipAuth
  /\ apiToken = Some(<<"F">>)
  /\ Len(mounts) = 1 /\ mounts[1].prefix = <<"/", "m", "/", "x">>
  /\ Dispatch("GET", last.request.pathname, last.request.header).route = "token401"

\* ---------------------------------------------------------------- request targets

\* The string without its leading slashes.
RECURSIVE StripLeadingSlashes(_)
StripLeadingSlashes(s) ==
  IF Len(s) > 0 /\ s[1] = "/" THEN StripLeadingSlashes(Slice(s, 1)) ELSE s

\* The request target up to its query.
BeforeQuery(url) ==
  IF IndexOf(url, "?") = -1 THEN url ELSE SubSeq(url, 1, IndexOf(url, "?"))

\* new URL(req.url, `http://localhost:${port}`).pathname, for request targets
\* that begin with "/" and are made of "/", "?" and letters: Null when the
\* constructor throws.  A target that begins with "//" is read as an authority
\* followed by a path (further leading slashes are skipped), and an empty
\* host is an invalid URL; any other target is the path up to its query.
UrlPathname(url) ==
  LET rest == StripLeadingSlashes(BeforeQuery(url))
      slash == IndexOf(rest, "/")
      host == IF slash = -1 THEN rest ELSE SubSeq(rest, 1, slash)
  IN  IF StartsWith(url, <<"/", "/">>)
      THEN IF host = <<>> THEN Null
           ELSE Some(IF slash = -1 THEN <<"/">> ELSE Slice(rest, slash))
      ELSE Some(BeforeQuery(url))

\* The request callback from its first line.  When new URL throws, the
\* exception leaves the callback before the try block: nothing is written and
\* the callback's promise rejects.
RequestUrl(method, url, header) ==
  IF IsNull(UrlPathname(url))
  THEN /\ ~IsNull(server)
       /\ last' = [op |-> "urlFailure", method |-> method, url |-> url, header |-> header,
                   status |-> 0, invoked |-> FALSE, ended |-> FALSE, unhandled |-> TRUE]
       /\ UNCHANGED <<listeners, conns, server, serverPort, mounts, authCredentials,
                      apiToken, apiReadToken>>
  ELSE Request(method, Val(UrlPathname(url)), header)

\* "/", "/m/x", "/m/x?q", "/api", "/zz", "//", "//a/m/x", "///"
UrlInputs ==
  { <<"/">>, <<"/", "m", "/", "x">>, <<"/", "m", "/", "x", "?", "q">>,
    ApiRoot, <<"/", "z", "z">>, <<"/", "/">>,
    <<"/", "/", "a", "/", "m", "/", "x">>, <<"/", "/", "/">> }

\* One name is mounted at "/m" with a handler that answers, stays pending or
\* throws; session credentials and the token "F" are switched on and off; the
\* server is started once; GET and OPTIONS requests carry no Authorization
\* header.
UrlNext ==
  \/ \E h \in FailingHandlers : Mount(Config(1, <<"/", "m">>, h, FALSE))
  \/ Unmount(1)
  \/ \E config \in BothAuthConfigs : SetAuth(config)
  \/ \E t \in {Null, Some(<<"F">>)} : SetApiToken(t)
  \/ IsNull(server) /\ Start(DefaultPort)
  \/ \E method \in {"GET", "OPTIONS"}, url \in UrlInputs : RequestUrl(method, url, NoHeader)
  \/ \E i \in 1..MaxConns : HandlerWrite(i)
  \/ \E i \in 1..MaxConns : HandlerResolve(i)
  \/ \E i \in 1..MaxConns, err \in Failures : HandlerReject(i, err)

SpecUrl == Init /\ [][UrlNext]_vars

\* ---------------------------------------------------------------- C23

\* The dispatcher refused the latest request at a gate.
GateFailure ==
  last.op = "request" /\ last.route \in {"session401", "token401", "token403"}

\* What holds of every request once a response has been written: a gate
\* failure is not followed by a handler call (nor, at the session gate, by
\* routing), a response begun by the handler is not followed by a 500, and the
\* dispatcher writes nothing for a handler that returns.
TerminalOnFirstWrite ==
  /\ GateFailure =>
       /\ ~last.invoked /\ last.status \in {401, 403}
       /\ (last.route = "session401" => ~last.routed /\ ~last.tokenGate)
  /\ last.op = "handlerFailure" =>
       /\ last.status \in {0, 500}
       /\ (last.headersSent => last.status = 0 /\ ~last.ended)
       /\ last.request.status = 0
  /\ last.op = "handlerReturn" => last.request.invoked /\ last.request.status = 0

\* C23 as stated: terminal on first write, and every request that does not
\* reach a mount handler ends with one response from {204, 200, 401, 403, 404}.
C23_OneResponse ==
  /\ TerminalOnFirstWrite
  /\ (last.op = "urlFailure" \/ (last.op = "request" /\ ~last.invoked)) =>
       last.status \in {204, 200, 401, 403, 404}

\* C23 holds of the requests whose target new URL accepts.
OneResponse_ParsedTargets ==
  /\ TerminalOnFirstWrite
  /\ last.op = "request" /\ ~last.invoked => last.status \in {204, 200, 401, 403, 404}

\* ---------------------------------------------------------------- ports

\* Ports passed to start: the ends of the range 0..65535 and the default.
ObserverPorts == { 0, DefaultPort, 65535 }

\* start and stop are called in any order while clients connect and requests
\* to "/m" are pending in an asynchronous handler.
ObserverNext ==
  \/ Mount(Config(1, <<"/", "m">>, AsyncHandler, FALSE))
  \/ \E port \in ObserverPorts : Start(port)
  \/ Stop
  \/ Connect
  \/ Request("GET", <<"/", "m">>, NoHeader)
  \/ \E i \in 1..MaxConns : HandlerResolve(i)

SpecObserver == Init /\ [][ObserverNext]_vars

\* ---------------------------------------------------------------- C24

\* C24: in every state isRunning() is true iff getPort() is non-null iff
\* getUrl() is non-null, and when running getUrl() names the port getPort()
\* returns, which is the port of the most recent start.
C24_ObserversAgree ==
  /\ isRunning <=> ~IsNull(getPort)
  /\ isRunning <=> ~IsNull(getUrl)
  /\ isRunning =>
       /\ getUrl = Some(Url(Val(getPort)))
       /\ Val(getPort) = Val(server).port

\* C24 holds while the most recent start was not given port 0.
ObserversAgree_NonZeroPort ==
  /\ isRunning <=> ~IsNull(getPort)
  /\ ~isRunning => IsNull(getUrl)
  /\ isRunning => Val(getPort) = Val(server).port
  /\ isRunning /\ Val(server).port # 0 => getUrl = Some(Url(Val(getPort)))

\* ---------------------------------------------------------------- lifecycle and configuration

\* "/m/x", "/api/m"
FramePaths == { <<"/", "m", "/", "x">>, <<"/", "a", "p", "i", "/", "m">> }

\* pi:s as Basic credentials, the token "F", or no header
FrameHeaders == { NoHeader, BasicFor(<<"p", "i">>, <<"s">>), BearerHeader(<<"F">>) }

\* Name 1 is mounted at "/m" only while the server is not running; name 2 is
\* mounted at "/api/m" at any time; unmount, setAuth and the token setters are
\* called at any time, and so are start, restart and stop.
FrameNext ==
  \/ IsNull(server) /\ Mount(Config(1, <<"/", "m">>, "h1", FALSE))
  \/ \E s \in BOOLEAN : MountApi(Config(2, <<"/", "m">>, "h2", s))
  \/ \E n \in {1, 2} : Unmount(n)
  \/ \E config \in BothAuthConfigs : SetAuth(config)
  \/ \E t \in {Null, Some(<<"F">>)} : SetApiToken(t)
  \/ \E t \in {Null, Some(<<"R">>)} : SetApiReadToken(t)
  \/ \E port \in LifePorts : Start(port)
  \/ Stop
  \/ Connect
  \/ \E pathname \in FramePaths, header \in FrameHeaders : Request("GET", pathname, header)

SpecFrame == Init /\ [][FrameNext]_vars

\* ---------------------------------------------------------------- C25

\* C25: start and stop, restart included, leave the registry, the session
\* credentials and both tokens as they are, and every request is answered by
\* the registry and the credentials alone, whenever the server was started;
\* mount, mountApi, unmount, setAuth,
\* setApiToken and setApiReadToken leave the server, its port and its listener
\* as they are.
C25_LifecycleFrame ==
  [][/\ last'.op \in {"start", "stop"} =>
          UNCHANGED <<mounts, authCredentials, apiToken, apiReadToken>>
     /\ last'.op = "request" =>
          FromOneState(last', mounts, authCredentials, apiToken, apiReadToken)
     /\ last'.op \in {"mount", "mountApi", "unmount", "unmountApi",
                      "setAuth", "setApiToken", "setApiReadToken"} =>
          /\ UNCHANGED <<server, serverPort, listeners, conns>>
          /\ isRunning' = isRunning /\ getPort' = getPort]_vars

\* C25 witness: after a restart on port 8080 a request reaches the mount of
\* name 1, which was registered while the server was not running, behind the
\* session gate set up with it.
C25_Witness ==
  /\ last.op = "request" /\ last.invoked
  /\ Val(last.match).name = 1
  /\ last.sessionGate /\ ~IsNull(authCredentials)
  /\ getPort = Some(8080)

\* ---------------------------------------------------------------- fixed routes

\* "", "/_api", "/_api/mounts": prefixes handed to mount
FixedPrefixes ==
  { <<>>, <<"/", "_", "a", "p", "i">>, MountsPath }

\* "/", "/api", "/api/", "/_api/mounts", "/_api/x", "/api/x"
FixedRoutePaths ==
  FixedPaths \cup { <<"/", "_", "a", "p", "i", "/", "x">>, <<"/", "a", "p", "i", "/", "x">> }

\* Name 1 is mounted at "/", "/_api" or "/_api/mounts", name 2 as an API mount
\* at "/api", with or without skipAuth; session credentials and the token "F"
\* are switched on and off; the server is started once; GET and OPTIONS
\* requests come without header or with the token.
FixedNext ==
  \/ \E p \in FixedPrefixes : Mount(Config(1, p, "h1", FALSE))
  \/ \E s \in BOOLEAN : MountApi(Config(2, <<>>, "h2", s))
  \/ \E n \in {1, 2} : Unmount(n)
  \/ \E config \in BothAuthConfigs : SetAuth(config)
  \/ \E t \in {Null, Some(<<"F">>)} : SetApiToken(t)
  \/ IsNull(server) /\ Start(DefaultPort)
  \/ \E method \in {"GET", "OPTIONS"}, pathname \in FixedRoutePaths,
        header \in {NoHeader, BearerHeader(<<"F">>)} :
       Request(method, pathname, header)

SpecFixed == Init /\ [][FixedNext]_vars

\* ---------------------------------------------------------------- C26

\* The fixed route of an exact path.
FixedRouteOf(pathname) ==
  IF pathname \in {ApiRoot, ApiRootSlash} THEN "apiListing"
  ELSE IF pathname = DashboardPath THEN "dashboard"
  ELSE "mounts"

\* The latest request was left to the router, and the router chose the longest
\* match or found none.
RouterDecided ==
  /\ last.routed
  /\ IF MatchingEntries(last.pathname) = {}
     THEN IsNull(last.match) /\ ~last.invoked
     ELSE /\ ~IsNull(last.match)
          /\ \E i \in LongestEntries(last.pathname) : Val(last.match) = mounts[i]

\* C26 as stated: a request to "/api", "/api/", "/" or "/_api/mounts" is always
\* answered with the API listing, the dashboard or the mount listing and no
\* mount handler is invoked; for every other path only the router decides.
C26_FixedRoutesFirst ==
  last.op = "request" =>
    IF last.pathname \in FixedPaths
    THEN last.route = FixedRouteOf(last.pathname) /\ ~last.invoked
    ELSE RouterDecided

\* C26 amended: on the four exact paths no mount handler is ever invoked; a
\* preflight is answered 204, a request refused by the gate of the path 401 or
\* 403, and every other request gets the fixed route.  On every other path a
\* request that is no preflight and passes the session gate is left to the
\* router.
C26_FixedRoutesBehindGates ==
  last.op = "request" =>
    IF last.pathname \in FixedPaths
    THEN /\ ~last.invoked /\ ~last.routed /\ IsNull(last.match)
         /\ last.route \in {"preflight", "session401", "token401", "token403",
                            FixedRouteOf(last.pathname)}
         /\ last.method = "OPTIONS" <=> last.route = "preflight"
         /\ last.route = "session401" <=>
              /\ last.method # "OPTIONS" /\ ~IsApiPath(last.pathname)
              /\ ~checkAuth(last.header, authCredentials)
         /\ last.route \in {"token401", "token403"} <=>
              /\ last.method # "OPTIONS" /\ IsApiPath(last.pathname)
              /\ checkApiAuth(last.method, last.header, apiToken, apiReadToken) # 0
    ELSE last.route \notin {"preflight", "session401"} => RouterDecided

\* C26 witness: GET /api is answered with the API listing while a mount is
\* registered at "/api".
C26_Witness ==
  /\ last.op = "request" /\ last.method = "GET" /\ last.pathname = ApiRoot
  /\ last.route = "apiListing" /\ ~last.invoked
  /\ \E i \in 1..Len(mounts) : mounts[i].prefix = ApiRoot

====
